---- MODULE Spec2Model ----
(***************************************************************************)
(* A model of lib/EpdFont/scripts/fontconvert.py, the converter that turns *)
(* a stack of font files into the glyph, interval, group, kerning and      *)
(* ligature tables of an EpdFontData header.                               *)
(*                                                                         *)
(* The script is a single-threaded batch pipeline.  Each stage of it is    *)
(* one action here; pc names the stage that runs next.  The stages that    *)
(* do not depend on one another are explored by separate specifications   *)
(* (Spec, SpecQuant, SpecKern, SpecKernExtract, SpecLig) so that each can  *)
(* enumerate its own inputs.                                               *)
(*                                                                         *)
(* Python values are rendered as follows: a tuple (a, b) is <<a, b>>; a    *)
(* list is a sequence; a dict is a function; the faces of font_stack are   *)
(* numbered from 1 and the face "None" is NoFace.                          *)
(***************************************************************************)
EXTENDS Integers, Sequences, FiniteSets, TLC

VARIABLES
    pc,                     \* the stage of the script that runs next
    \* the interval, glyph and group tables
    add_ints,               \* args.additional_intervals, parsed (line 118-120)
    font_stack,             \* the faces, by descending priority (line 25)
    compress,               \* args.compress (line 650)
    unmerged_intervals,     \* line 143
    unvalidated_intervals,  \* line 145-150
    intervals,              \* line 144, 152-161: the covered intervals
    all_glyphs,             \* line 167-269: one record per emitted glyph
    groups,                 \* line 679-696: (first_glyph_index, glyph_count)
    Intervals,              \* line 771-776: the emitted EpdUnicodeInterval rows
    \* the bitmap quantizer, for one glyph
    is2Bit,                 \* args.is2Bit (line 26)
    bitmap,                 \* face.glyph.bitmap: width, rows, buffer (line 172)
    pixels4g,               \* line 175-189
    pixels,                 \* line 254: pixels2b or pixelsbw
    packed,                 \* line 257: bytes(pixels)
    \* the kerning class compressor
    kern_map,               \* line 414-417: (leftCp, rightCp) -> adjust
    left_class_map,         \* line 437-444: leftCp -> class id
    left_class_id,          \* line 438-443: the next left class id
    right_class_map,        \* line 448-455: rightCp -> class id
    right_class_id,         \* line 449-454: the next right class id
    kern_left_class_count,  \* line 457
    kern_right_class_count, \* line 458
    kern_matrix,            \* line 466-470, row-major
    kern_left_classes,      \* line 473: sorted (codepoint, classId)
    kern_right_classes,     \* line 474
    \* the ligature extractor
    all_codepoints,         \* line 289: the codepoints of the glyph records
    lig_order,              \* line 636: the faces still to visit, in the
                            \* iteration order of lig_face_idx_cps
    raw_ligatures,          \* line 519: the dict of the face being read,
                            \* as its (seq, lig_cp) items in insertion order
    rules_read,             \* the ligature records read so far, in order
    filtered_log,           \* line 581-586: (face_idx, filtered) per face read
    ligature_pairs,         \* line 635-638: the extracted pairs, in order
    LigaturePairs,          \* line 647, 804-808: the emitted table
    \* the glyph data and the descriptor
    pipe_face,              \* line 272: face = load_glyph(ord('|'))
    glyph_data,             \* line 274-278: the bitmap bytes of all glyphs
    glyph_props,            \* line 275-279, 735: the emitted glyph records
    compressed_groups,      \* line 699-731: one record per group
    descriptor,             \* line 810-847: the fields of EpdFontData
    \* the kerning extractor
    size,                   \* args.size (line 27)
    tt_fonts,               \* TTFont(font_path) of each font file (line 355)
    kern_order,             \* line 415: the faces of face_idx_cps not yet read
    kern_face,              \* line 415: face_idx of the call in progress
    glyph_to_cp,            \* line 360-364: glyph name -> codepoint
    raw_kern,               \* line 367: (left name, right name) -> design units
    kern_result             \* line 399-407: the dict the call returns

ivars == <<add_ints, font_stack, compress, unmerged_intervals,
           unvalidated_intervals, intervals, all_glyphs, groups, Intervals>>

qvars == <<is2Bit, bitmap, pixels4g, pixels, packed>>

kvars == <<kern_map, left_class_map, left_class_id, right_class_map,
           right_class_id, kern_left_class_count, kern_right_class_count,
           kern_matrix, kern_left_classes, kern_right_classes>>

lvars == <<all_codepoints, lig_order, raw_ligatures, rules_read,
           filtered_log, ligature_pairs, LigaturePairs>>

dvars == <<pipe_face, glyph_data, glyph_props, compressed_groups, descriptor>>

xvars == <<size, tt_fonts, kern_order, kern_face, glyph_to_cp, raw_kern,
           kern_result>>

\* what the actions of one stage leave alone
notIvars == <<qvars, kvars, lvars, xvars>>
notQvars == <<ivars, kvars, lvars, dvars, xvars>>
notKvars == <<ivars, qvars, lvars, dvars, xvars>>

vars == <<pc, ivars, qvars, kvars, lvars, dvars, xvars>>

----------------------------------------------------------------------------
(* Bounds of the explored inputs. *)

\* the most --additional-intervals arguments given
MaxAddInts == 1
\* the additional intervals lie in FirstProbe .. FirstProbe + ProbeSpan
ProbeSpan == 2
\* the number of font files on the command line
NumFonts == 2
\* the most pixels (width * rows) of a rasterized glyph
MaxPixels == 9
\* the most pairs of the extracted kerning pair map
MaxPairs == 4
\* the most ligature records read from the GSUB tables of the font stack
MaxRules == 3

----------------------------------------------------------------------------
(* Helpers for Python built-ins. *)

Max(a, b) == IF a >= b THEN a ELSE b

Min(a, b) == IF a <= b THEN a ELSE b

Last(s) == s[Len(s)]

\* a & b, a | b, a << n and a >> n on non-negative Python integers
RECURSIVE BitAnd(_, _)
BitAnd(a, b) ==
    IF a = 0 \/ b = 0 THEN 0
    ELSE (a % 2) * (b % 2) + 2 * BitAnd(a \div 2, b \div 2)

RECURSIVE BitOr(_, _)
BitOr(a, b) ==
    IF a = 0 THEN b
    ELSE IF b = 0 THEN a
    ELSE Max(a % 2, b % 2) + 2 * BitOr(a \div 2, b \div 2)

ShiftLeft(a, n) == a * 2^n

ShiftRight(a, n) == a \div 2^n

\* Python's order on 2-tuples of integers
TupleLess(a, b) == a[1] < b[1] \/ (a[1] = b[1] /\ a[2] < b[2])

RECURSIVE InsertSorted(_, _)
InsertSorted(s, x) ==
    IF s = <<>> THEN <<x>>
    ELSE IF TupleLess(x, Head(s)) THEN <<x>> \o s
    ELSE <<Head(s)>> \o InsertSorted(Tail(s), x)

\* sorted(l) for a list of 2-tuples (stable: an equal element goes after)
RECURSIVE sorted(_)
sorted(l) ==
    IF l = <<>> THEN <<>>
    ELSE InsertSorted(sorted(SubSeq(l, 1, Len(l) - 1)), Last(l))

----------------------------------------------------------------------------
(* Codepoint Interval Resolver: lines 33-161.                              *)

\* the intervals list of lines 35-116, in source order
DefaultIntervals ==
    << <<\H0000, \H007F>>, <<\H0080, \H00FF>>, <<\H0100, \H017F>>,
       <<\H2000, \H206F>>, <<\H2010, \H203A>>, <<\H2040, \H205F>>,
       <<\H20A0, \H20CF>>, <<\H0300, \H036F>>, <<\H0400, \H04FF>>,
       <<\H2070, \H209F>>, <<\H2200, \H22FF>>, <<\H2190, \H21FF>>,
       <<\HFB00, \HFB06>>, <<\HFFFD, \HFFFD>> >>

\* load_glyph returning None
NoFace == 0

\* face.get_char_index(code_point): a face is modelled by the set of
\* codepoints its charmap covers; every covered codepoint has a glyph
\* index > 0 and every other codepoint has glyph index 0 (.notdef)
get_char_index(face, code_point) == IF code_point \in face THEN 1 ELSE 0

\* the while loop of load_glyph, lines 134-141
RECURSIVE load_glyph_from(_, _)
load_glyph_from(face_index, code_point) ==
    IF ~(face_index <= Len(font_stack)) THEN NoFace
    ELSE IF get_char_index(font_stack[face_index], code_point) > 0
         THEN face_index
         ELSE load_glyph_from(face_index + 1, code_point)

\* load_glyph, lines 132-141: the first face of the stack with a glyph
load_glyph(code_point) == load_glyph_from(1, code_point)

\* one pass of the merge loop body, lines 147-150
MergeStep(acc, iv) ==
    IF Len(acc) > 0 /\ iv[1] + 1 <= Last(acc)[2]
    THEN [acc EXCEPT ![Len(acc)] = <<Last(acc)[1], Max(Last(acc)[2], iv[2])>>]
    ELSE Append(acc, iv)

\* the merge loop, lines 145-150
RECURSIVE MergeIntervals(_, _)
MergeIntervals(acc, rest) ==
    IF rest = <<>> THEN acc
    ELSE MergeIntervals(MergeStep(acc, Head(rest)), Tail(rest))

\* (mutant of ValidateStep) the interval closed at an unserved codepoint
\* ends at that codepoint instead of before it
ValidateStepKeepsUnserved(st, code_point) ==
    IF load_glyph(code_point) = NoFace
    THEN [start |-> code_point + 1,
          intervals |-> IF st.start < code_point
                        THEN Append(st.intervals, <<st.start, code_point>>)
                        ELSE st.intervals]
    ELSE st

\* the body of the coverage loop, lines 155-159; st holds the loop's start
\* variable and the intervals list
ValidateStep(st, code_point) ==
    IF load_glyph(code_point) = NoFace
    THEN [start |-> code_point + 1,
          intervals |-> IF st.start < code_point
                        THEN Append(st.intervals, <<st.start, code_point - 1>>)
                        ELSE st.intervals]
    ELSE st

\* for code_point in range(lo, hi + 1), line 154: the loop body applied to
\* lo, lo + 1, ..., hi in that order.  The range is halved, and st is read
\* on entry, so that the evaluation nests only logarithmically deep.
RECURSIVE ValidateRange(_, _, _)
ValidateRange(st, lo, hi) ==
    IF lo > hi \/ DOMAIN st = {} THEN st
    ELSE IF lo = hi THEN ValidateStep(st, lo)
    ELSE LET mid == (lo + hi) \div 2
         IN ValidateRange(ValidateRange(st, lo, mid), mid + 1, hi)

\* one unvalidated interval, lines 153-161
ValidateOne(acc, i_start, i_end) ==
    LET st == ValidateRange([start |-> i_start, intervals |-> acc],
                            i_start, i_end)
    IN IF st.start # i_end + 1
       THEN Append(st.intervals, <<st.start, i_end>>)
       ELSE st.intervals

\* the loop over the unvalidated intervals, lines 152-161
RECURSIVE ValidateIntervals(_, _)
ValidateIntervals(acc, rest) ==
    IF rest = <<>> THEN acc
    ELSE ValidateIntervals(
             ValidateOne(acc, Head(rest)[1], Head(rest)[2]),
             Tail(rest))

----------------------------------------------------------------------------
(* Group Compressor: lines 652-696 (the partition into groups).            *)

SCRIPT_GROUP_RANGES ==
    << <<\H0000, \H007F>>, <<\H0080, \H00FF>>, <<\H0100, \H017F>>,
       <<\H0300, \H036F>>, <<\H0400, \H04FF>>, <<\H2000, \H206F>>,
       <<\H2070, \H209F>>, <<\H20A0, \H20CF>>, <<\H2190, \H21FF>>,
       <<\H2200, \H22FF>>, <<\HFB00, \HFB06>>, <<\HFFFD, \HFFFD>> >>

\* the loop of get_script_group; i counts from 1 here, the result is the
\* Python index i - 1, or -1 when no range matches
RECURSIVE get_script_group_from(_, _)
get_script_group_from(i, code_point) ==
    IF i > Len(SCRIPT_GROUP_RANGES) THEN -1
    ELSE IF SCRIPT_GROUP_RANGES[i][1] <= code_point
            /\ code_point <= SCRIPT_GROUP_RANGES[i][2]
         THEN i - 1
         ELSE get_script_group_from(i + 1, code_point)

\* (mutant of get_script_group) a codepoint of no block is a group id of
\* its own
get_script_group_own(code_point) ==
    IF get_script_group_from(1, code_point) = -1 THEN -3 - code_point
    ELSE get_script_group_from(1, code_point)

\* get_script_group, lines 673-677
get_script_group(code_point) == get_script_group_from(1, code_point)

\* current_group_id = None, line 680: a value no script group id equals
None == -2

\* (mutant of GroupStep) a new group does not count its first glyph
GroupStepMiscounts(st, i, code_point) ==
    LET sg == get_script_group(code_point) IN
    IF sg # st.current_group_id
    THEN [groups |-> IF st.group_count > 0
                     THEN Append(st.groups, <<st.group_start, st.group_count>>)
                     ELSE st.groups,
          current_group_id |-> sg,
          group_start |-> i,
          group_count |-> 0]
    ELSE [st EXCEPT !.group_count = st.group_count + 1]

\* the body of the grouping loop, lines 685-693; st is the loop state
GroupStep(st, i, code_point) ==
    LET sg == get_script_group(code_point) IN
    IF sg # st.current_group_id
    THEN [groups |-> IF st.group_count > 0
                     THEN Append(st.groups, <<st.group_start, st.group_count>>)
                     ELSE st.groups,
          current_group_id |-> sg,
          group_start |-> i,
          group_count |-> 1]
    ELSE [st EXCEPT !.group_count = st.group_count + 1]

\* the grouping loop, lines 684-693; i is the Python index (from 0)
RECURSIVE GroupLoop(_, _, _)
GroupLoop(st, i, glyphs) ==
    IF i >= Len(glyphs) THEN st
    ELSE GroupLoop(GroupStep(st, i, glyphs[i + 1].code_point), i + 1, glyphs)

\* lines 679-696
BuildGroups(glyphs) ==
    LET st == GroupLoop([groups |-> <<>>, current_group_id |-> None,
                         group_start |-> 0, group_count |-> 0], 0, glyphs)
    IN IF st.group_count > 0
       THEN Append(st.groups, <<st.group_start, st.group_count>>)
       ELSE st.groups

----------------------------------------------------------------------------
(* Binary Emitter: the Intervals array, lines 771-776.                     *)

\* {start, end, offset} per interval, offset the running glyph count
RECURSIVE EmitIntervals(_, _, _)
EmitIntervals(acc, offset, rest) ==
    IF rest = <<>> THEN acc
    ELSE EmitIntervals(Append(acc, <<Head(rest)[1], Head(rest)[2], offset>>),
                       offset + Head(rest)[2] - Head(rest)[1] + 1,
                       Tail(rest))

----------------------------------------------------------------------------
(* Bitmap Quantizer: lines 172-257, for the bitmap of one glyph.           *)

\* the body of the 4-bit packing loop, lines 178-189; i counts from 0
Pixels4gStep(st, i, v, width) ==
    LET x == i % width
        st1 == IF x % 2 = 0
               THEN [st EXCEPT !.px = ShiftRight(v, 4)]
               ELSE [px |-> 0,
                     pixels4g |-> Append(st.pixels4g,
                                         BitOr(st.px, BitAnd(v, 240)))]
    IN IF x = width - 1 /\ width % 2 > 0
       THEN [px |-> 0, pixels4g |-> Append(st1.pixels4g, st1.px)]
       ELSE st1

\* the 4-bit packing loop over bitmap.buffer, lines 177-189 (st.px < 0
\* never holds: the test makes the loop state a value before the next step)
RECURSIVE Pixels4gLoop(_, _, _, _)
Pixels4gLoop(st, i, buffer, width) ==
    IF i >= Len(buffer) \/ st.px < 0 THEN st
    ELSE Pixels4gLoop(Pixels4gStep(st, i, buffer[i + 1], width),
                      i + 1, buffer, width)

\* pixels4g, lines 175-189: two pixels per byte, the even column in the low
\* nibble, each row padded to a whole byte
BuildPixels4g(bm) ==
    Pixels4gLoop([px |-> 0, pixels4g |-> <<>>], 0, bm.buffer, bm.width).pixels4g

\* pitch, lines 196 and 230
Pitch(width) == (width \div 2) + (width % 2)

\* (mutant of Pixels2bStep) every pixel reads the low nibble of its byte
Pixels2bStepLowNibble(st, x, y, width, p4g) ==
    LET px0 == ShiftLeft(st.px, 2)
        bm0 == p4g[y * Pitch(width) + (x \div 2) + 1]
        bm == BitAnd(bm0, 15)
        px == IF bm >= 12 THEN px0 + 3
              ELSE IF bm >= 8 THEN px0 + 2
              ELSE IF bm >= 4 THEN px0 + 1
              ELSE px0
    IN IF (y * width + x) % 4 = 3
       THEN [px |-> 0, pixels |-> Append(st.pixels, px)]
       ELSE [px |-> px, pixels |-> st.pixels]

\* the body of the 2-bit loop, lines 199-212, for the pixel (x, y)
Pixels2bStep(st, x, y, width, p4g) ==
    LET px0 == ShiftLeft(st.px, 2)
        bm0 == p4g[y * Pitch(width) + (x \div 2) + 1]
        bm == BitAnd(ShiftRight(bm0, (x % 2) * 4), 15)
        px == IF bm >= 12 THEN px0 + 3
              ELSE IF bm >= 8 THEN px0 + 2
              ELSE IF bm >= 4 THEN px0 + 1
              ELSE px0
    IN IF (y * width + x) % 4 = 3
       THEN [px |-> 0, pixels |-> Append(st.pixels, px)]
       ELSE [px |-> px, pixels |-> st.pixels]

\* (mutant of PixelsbwStep) any non-zero intensity is black
PixelsbwStepAnyInk(st, x, y, width, p4g) ==
    LET px0 == ShiftLeft(st.px, 1)
        bm == p4g[y * Pitch(width) + (x \div 2) + 1]
        px == px0 + (IF \/ (BitAnd(x, 1) = 0 /\ BitAnd(bm, 15) > 0)
                        \/ (BitAnd(x, 1) = 1 /\ BitAnd(bm, 240) > 0)
                     THEN 1 ELSE 0)
    IN IF (y * width + x) % 8 = 7
       THEN [px |-> 0, pixels |-> Append(st.pixels, px)]
       ELSE [px |-> px, pixels |-> st.pixels]

\* the body of the 1-bit loop, lines 233-239, for the pixel (x, y)
PixelsbwStep(st, x, y, width, p4g) ==
    LET px0 == ShiftLeft(st.px, 1)
        bm == p4g[y * Pitch(width) + (x \div 2) + 1]
        px == px0 + (IF \/ (BitAnd(x, 1) = 0 /\ BitAnd(bm, 14) > 0)
                        \/ (BitAnd(x, 1) = 1 /\ BitAnd(bm, 224) > 0)
                     THEN 1 ELSE 0)
    IN IF (y * width + x) % 8 = 7
       THEN [px |-> 0, pixels |-> Append(st.pixels, px)]
       ELSE [px |-> px, pixels |-> st.pixels]

\* for y in range(rows): for x in range(width), lines 197-198 and 231-232:
\* the pixels in row-major order; n counts the pixels done (st.px < 0 never
\* holds: the test makes the loop state a value before the next step)
RECURSIVE PackLoop(_, _, _, _, _)
PackLoop(st, n, bm, p4g, twoBit) ==
    IF n >= bm.rows * bm.width \/ st.px < 0 THEN st
    ELSE PackLoop(IF twoBit
                  THEN Pixels2bStep(st, n % bm.width, n \div bm.width,
                                    bm.width, p4g)
                  ELSE PixelsbwStep(st, n % bm.width, n \div bm.width,
                                    bm.width, p4g),
                  n + 1, bm, p4g, twoBit)

\* pixels2b, lines 194-215
pixels2b(bm, p4g) ==
    LET st == PackLoop([px |-> 0, pixels |-> <<>>], 0, bm, p4g, TRUE)
        rest == (bm.width * bm.rows) % 4
    IN IF rest # 0
       THEN Append(st.pixels, ShiftLeft(st.px, (4 - rest) * 2))
       ELSE st.pixels

\* (mutant of pixelsbw) the last, partly filled byte is not appended
pixelsbwNoTail(bm, p4g) ==
    PackLoop([px |-> 0, pixels |-> <<>>], 0, bm, p4g, FALSE).pixels

\* pixelsbw, lines 228-242
pixelsbw(bm, p4g) ==
    LET st == PackLoop([px |-> 0, pixels |-> <<>>], 0, bm, p4g, FALSE)
        rest == (bm.width * bm.rows) % 8
    IN IF rest # 0
       THEN Append(st.pixels, ShiftLeft(st.px, 8 - rest))
       ELSE st.pixels

----------------------------------------------------------------------------
(* Glyph Table Assembler: lines 166-269 (the order of the glyph records).  *)

\* face.glyph.bitmap after load_glyph, line 172, in the explored fonts: the
\* raster of a codepoint is 3 * (code_point mod 3) pixels wide (so some
\* glyphs have no pixels) and one row higher than the index of its face,
\* with two pixels of ink out of three
RasterOf(face_index, code_point) ==
    LET width == (code_point % 3) * 3
        rows == face_index + 1
    IN [width |-> width, rows |-> rows,
        buffer |-> [i \in 1..(width * rows) |->
                       IF (i + code_point) % 3 = 0 THEN 0 ELSE 255]]

\* norm_floor and norm_ceil, lines 122-126, of a 26.6 fixed-point value
norm_floor(val) == val \div 64

norm_ceil(val) == -((-val) \div 64)

\* face.glyph after load_glyph, lines 261-263, in the explored fonts: the
\* advance in 26.6 fixed point, a third of a pixel (and a little more per
\* face) beyond the raster's width plus one; the left bearing -1 or 0; the
\* top bearing at or one above the raster's height
GlyphSlotOf(face_index, code_point) ==
    [advance |-> [x |-> 64 * ((code_point % 3) * 3 + 1) + 21 * face_index],
     bitmap_left |-> (code_point % 2) - 1,
     bitmap_top |-> face_index + 1 + (code_point % 2)]

\* packed, lines 174-257, for one raster
PackedOf(bm) ==
    IF is2Bit THEN pixels2b(bm, BuildPixels4g(bm))
    ELSE pixelsbw(bm, BuildPixels4g(bm))

\* the GlyphProps and the packed bytes appended for one codepoint, lines
\* 171-269; glyph is face.glyph, bm its bitmap, and total_size is where the
\* previous glyph ends.  face, the index of the face that drew the glyph,
\* is kept beside the fields of the tuple
GlyphRecord(code_point, face_index, glyph, bm, bytes, total_size) ==
    [code_point |-> code_point, face |-> face_index,
     width |-> bm.width, height |-> bm.rows,
     advance_x |-> norm_floor(glyph.advance.x),
     left |-> glyph.bitmap_left,
     top |-> glyph.bitmap_top,
     data_length |-> Len(bytes), data_offset |-> total_size,
     packed |-> bytes]

\* the loop body, lines 171-269
GlyphStep(acc, code_point) ==
    LET face_index == load_glyph(code_point)
        bm == RasterOf(face_index, code_point)
    IN Append(acc,
              GlyphRecord(code_point, face_index,
                          GlyphSlotOf(face_index, code_point), bm,
                          PackedOf(bm),
                          IF acc = <<>> THEN 0
                          ELSE Last(acc).data_offset + Last(acc).data_length))

\* for code_point in range(lo, hi + 1), line 170: the loop body applied to
\* lo, lo + 1, ..., hi in that order (halved and strict, as ValidateRange)
RECURSIVE GlyphsOfInterval(_, _, _)
GlyphsOfInterval(acc, lo, hi) ==
    IF lo > hi \/ Len(acc) < 0 THEN acc
    ELSE IF lo = hi THEN GlyphStep(acc, lo)
    ELSE LET mid == (lo + hi) \div 2
         IN GlyphsOfInterval(GlyphsOfInterval(acc, lo, mid), mid + 1, hi)

\* the loop over the intervals, lines 169-269
RECURSIVE BuildGlyphs(_, _)
BuildGlyphs(acc, rest) ==
    IF rest = <<>> THEN acc
    ELSE BuildGlyphs(GlyphsOfInterval(acc, Head(rest)[1], Head(rest)[2]),
                     Tail(rest))

\* glyph_data, lines 274-278: the packed bytes of all glyphs, in order
RECURSIVE GlyphData(_)
GlyphData(glyphs) ==
    IF glyphs = <<>> THEN <<>>
    ELSE GlyphData(SubSeq(glyphs, 1, Len(glyphs) - 1)) \o Last(glyphs).packed

\* glyph_props, lines 275-279: the GlyphProps of all glyphs, in order
GlyphProps(glyphs) ==
    [k \in 1..Len(glyphs) |->
        [width |-> glyphs[k].width, height |-> glyphs[k].height,
         advance_x |-> glyphs[k].advance_x,
         left |-> glyphs[k].left,
         top |-> glyphs[k].top,
         data_length |-> glyphs[k].data_length,
         data_offset |-> glyphs[k].data_offset,
         code_point |-> glyphs[k].code_point]]

\* all_codepoints, line 289
CodePointsOf(props) ==
    [k \in 1..Len(props) |-> props[k].code_point]

----------------------------------------------------------------------------
(* Group Compressor: lines 698-737 (the data of the groups).               *)

\* (mutant of WithinGroupStep) the glyph keeps its offset into glyph_data
WithinGroupStepGlobal(st, gi, glyphs) ==
    [group_data |-> st.group_data \o glyphs[gi + 1].packed,
     props |-> st.props]

\* (mutant of WithinGroupStep) the rebuilt record takes left for top and top
\* for left
WithinGroupStepSwapsBearings(st, gi, glyphs) ==
    LET old_props == st.props[gi + 1]
    IN [group_data |-> st.group_data \o glyphs[gi + 1].packed,
        props |-> [st.props EXCEPT ![gi + 1] =
                      [width |-> old_props.width,
                       height |-> old_props.height,
                       advance_x |-> old_props.advance_x,
                       left |-> old_props.top,
                       top |-> old_props.left,
                       data_length |-> old_props.data_length,
                       data_offset |-> Len(st.group_data),
                       code_point |-> old_props.code_point]]]

\* the body of the inner loop, lines 707-722, for the glyph index gi (from
\* 0); st holds group_data and modified_glyph_props
WithinGroupStep(st, gi, glyphs) ==
    LET old_props == st.props[gi + 1]
    IN [group_data |-> st.group_data \o glyphs[gi + 1].packed,
        props |-> [st.props EXCEPT ![gi + 1] =
                      [width |-> old_props.width,
                       height |-> old_props.height,
                       advance_x |-> old_props.advance_x,
                       left |-> old_props.left,
                       top |-> old_props.top,
                       data_length |-> old_props.data_length,
                       data_offset |-> Len(st.group_data),
                       code_point |-> old_props.code_point]]]

\* for gi in range(first_idx, first_idx + count), line 706
RECURSIVE GroupDataLoop(_, _, _, _)
GroupDataLoop(st, gi, stop, glyphs) ==
    IF gi >= stop THEN st
    ELSE GroupDataLoop(WithinGroupStep(st, gi, glyphs), gi + 1, stop, glyphs)

\* the loop over the groups, lines 703-731; st holds compressed_groups and
\* modified_glyph_props.  A group's record keeps group_data, the bytes handed
\* to the DEFLATE compressor, in place of the compressed bytes
RECURSIVE CompressLoop(_, _, _)
CompressLoop(st, rest, glyphs) ==
    IF rest = <<>> THEN st
    ELSE LET first_idx == Head(rest)[1]
             count == Head(rest)[2]
             g == GroupDataLoop([group_data |-> <<>>, props |-> st.props],
                                first_idx, first_idx + count, glyphs)
         IN CompressLoop(
                [compressed_groups |->
                     Append(st.compressed_groups,
                            [group_data |-> g.group_data,
                             uncompressed_size |-> Len(g.group_data),
                             count |-> count,
                             first_idx |-> first_idx]),
                 props |-> g.props],
                Tail(rest), glyphs)

----------------------------------------------------------------------------
(* Binary Emitter: the EpdFontData descriptor, lines 810-847.              *)

\* face.size of the explored fonts, in 26.6 fixed point
FaceSize(face_index) ==
    [height |-> 1280 + 10 * face_index,
     ascender |-> 961 + face_index,
     descender |-> -(256 + face_index)]

\* the fields printed before face.size is read, lines 810-813
DescriptorHead(n_intervals) == <<"Bitmaps", "Glyphs", "Intervals", n_intervals>>

\* the metrics and the mode, lines 814-817
DescriptorMetrics(face_index, twoBit) ==
    <<norm_ceil(FaceSize(face_index).height),
      norm_ceil(FaceSize(face_index).ascender),
      norm_floor(FaceSize(face_index).descender),
      twoBit>>

\* (mutant of DescriptorKerning) without kerning the three pointers alone
\* are printed
DescriptorKerningShort(km, left_classes, right_classes, left_count, right_count) ==
    IF km # <<>>
    THEN <<"KernLeftClasses", "KernRightClasses", "KernMatrix",
           Len(left_classes), Len(right_classes), left_count, right_count>>
    ELSE <<"nullptr", "nullptr", "nullptr">>

\* the kerning fields, lines 824-839
DescriptorKerning(km, left_classes, right_classes, left_count, right_count) ==
    IF km # <<>>
    THEN <<"KernLeftClasses", "KernRightClasses", "KernMatrix",
           Len(left_classes), Len(right_classes), left_count, right_count>>
    ELSE <<"nullptr", "nullptr", "nullptr", 0, 0, 0, 0>>

\* the group fields, lines 818-823
DescriptorGroups(compressed, cgroups) ==
    IF compressed THEN <<"Groups", Len(cgroups)>> ELSE <<"nullptr", 0>>

\* the ligature fields, lines 840-845
DescriptorLigatures(pairs) ==
    IF pairs # <<>> THEN <<"LigaturePairs", Len(pairs)>> ELSE <<"nullptr", 0>>

----------------------------------------------------------------------------
(* Kerning class compressor: lines 421-474.                                *)

\* sorted(S) for a set of integers
RECURSIVE SortedSeq(_)
SortedSeq(S) ==
    IF S = {} THEN <<>>
    ELSE LET m == CHOOSE x \in S : \A y \in S : x <= y
         IN <<m>> \o SortedSeq(S \ {m})

\* all_left_cps and all_right_cps, lines 429-430
AllLeftCps(km) == {k[1] : k \in DOMAIN km}

AllRightCps(km) == {k[2] : k \in DOMAIN km}

\* kern_map.get((lcp, rcp), 0), lines 440 and 451
KernGet(km, lcp, rcp) ==
    IF <<lcp, rcp>> \in DOMAIN km THEN km[<<lcp, rcp>>] ELSE 0

\* (mutant of LeftRow) the row is taken over the left codepoints
LeftRowOverLeft(km, lcp) ==
    LET sorted_left_cps == SortedSeq(AllLeftCps(km))
    IN [j \in 1..Len(sorted_left_cps) |-> KernGet(km, lcp, sorted_left_cps[j])]

\* row, line 440: the adjustments of lcp against the sorted right codepoints
LeftRow(km, lcp) ==
    LET sorted_right_cps == SortedSeq(AllRightCps(km))
    IN [j \in 1..Len(sorted_right_cps) |-> KernGet(km, lcp, sorted_right_cps[j])]

\* (mutant of RightCol) the column is cut after the first left codepoint
RightColFirstLeft(km, rcp) ==
    LET sorted_left_cps == SortedSeq(AllLeftCps(km))
    IN [i \in 1..1 |-> KernGet(km, sorted_left_cps[i], rcp)]

\* col, line 451: the adjustments of the sorted left codepoints against rcp
RightCol(km, rcp) ==
    LET sorted_left_cps == SortedSeq(AllLeftCps(km))
    IN [i \in 1..Len(sorted_left_cps) |-> KernGet(km, sorted_left_cps[i], rcp)]

\* (mutant of ClassStep) a new profile advances the class id by two
ClassStepSkipping(st, cp, profile) ==
    LET st1 == IF profile \notin DOMAIN st.profile_to_class
               THEN [st EXCEPT
                       !.profile_to_class = @ @@ (profile :> st.class_id),
                       !.class_id = @ + 2]
               ELSE st
    IN [st1 EXCEPT !.class_map = @ @@ (cp :> st1.profile_to_class[profile])]

\* the body of a class discovery loop, lines 441-444 and 452-455; st holds
\* the profile_to_class dict, the class_map dict and the next class id
ClassStep(st, cp, profile) ==
    LET st1 == IF profile \notin DOMAIN st.profile_to_class
               THEN [st EXCEPT
                       !.profile_to_class = @ @@ (profile :> st.class_id),
                       !.class_id = @ + 1]
               ELSE st
    IN [st1 EXCEPT !.class_map = @ @@ (cp :> st1.profile_to_class[profile])]

\* the loop over sorted(all_left_cps), lines 436-444
RECURSIVE LeftClassLoop(_, _, _)
LeftClassLoop(st, cps, km) ==
    IF cps = <<>> THEN st
    ELSE LeftClassLoop(ClassStep(st, Head(cps), LeftRow(km, Head(cps))),
                       Tail(cps), km)

\* the loop over sorted(all_right_cps), lines 447-455
RECURSIVE RightClassLoop(_, _, _)
RightClassLoop(st, cps, km) ==
    IF cps = <<>> THEN st
    ELSE RightClassLoop(ClassStep(st, Head(cps), RightCol(km, Head(cps))),
                        Tail(cps), km)

\* the dicts and the counter before a class discovery loop, lines 436-438
ClassInit == [profile_to_class |-> <<>>, class_map |-> <<>>, class_id |-> 1]

\* (mutant of MatrixWrite) the cell is addressed column-major
MatrixWriteTransposed(matrix, lcp, rcp, adjust) ==
    LET lc == left_class_map[lcp] - 1
        rc == right_class_map[rcp] - 1
    IN [matrix EXCEPT ![rc * kern_left_class_count + lc + 1] = adjust]

\* the body of the matrix loop, lines 468-470
MatrixWrite(matrix, lcp, rcp, adjust) ==
    LET lc == left_class_map[lcp] - 1
        rc == right_class_map[rcp] - 1
    IN [matrix EXCEPT ![lc * kern_right_class_count + rc + 1] = adjust]

\* the matrix loop, lines 467-470, over kern_map.items() in the order keys
RECURSIVE MatrixLoop(_, _, _)
MatrixLoop(matrix, keys, km) ==
    IF keys = <<>> THEN matrix
    ELSE MatrixLoop(MatrixWrite(matrix, Head(keys)[1], Head(keys)[2],
                                km[Head(keys)]),
                    Tail(keys), km)

\* the orders in which a dict with the key set S may be iterated (the dict
\* keeps insertion order, which is the order of extraction)
RECURSIVE Orders(_)
Orders(S) ==
    IF S = {} THEN {<<>>}
    ELSE UNION {{<<x>> \o o : o \in Orders(S \ {x})} : x \in S}

\* sorted(class_map.items()), lines 473-474
ClassEntries(class_map) ==
    LET cps == SortedSeq(DOMAIN class_map)
    IN [k \in 1..Len(cps) |-> <<cps[k], class_map[cps[k]]>>]

----------------------------------------------------------------------------
(* Ligature Extractor: lines 481-648.                                      *)

COMBINING_MARKS_START == \H0300

COMBINING_MARKS_END == \H036F

\* lines 492-500
STANDARD_LIGATURE_MAP ==
    (<<\H66, \H66>> :> \HFB00) @@ (<<\H66, \H69>> :> \HFB01) @@
    (<<\H66, \H6C>> :> \HFB02) @@ (<<\H66, \H66, \H69>> :> \HFB03) @@
    (<<\H66, \H66, \H6C>> :> \HFB04) @@ (<<\H17F, \H74>> :> \HFB05) @@
    (<<\H73, \H74>> :> \HFB06)

\* a dict is held as the sequence of its (key, value) items in insertion
\* order: key in d, d[key], and d[key] = value
DictHas(d, key) == \E k \in 1..Len(d) : d[k][1] = key

DictGet(d, key) == d[CHOOSE k \in 1..Len(d) : d[k][1] = key][2]

DictSet(d, key, value) ==
    IF DictHas(d, key)
    THEN [k \in 1..Len(d) |-> IF d[k][1] = key THEN <<key, value>> ELSE d[k]]
    ELSE Append(d, <<key, value>>)

\* ligature_codepoints, lines 619-620
ligature_codepoints(codepoints) ==
    {codepoints[k] : k \in 1..Len(codepoints)} \
    (COMBINING_MARKS_START .. COMBINING_MARKS_END)

\* (mutant of face_idx_from) the last face with a glyph for cp is taken
face_idx_from_end(face_idx, cp) ==
    IF \A f \in face_idx..Len(font_stack) : get_char_index(font_stack[f], cp) = 0
    THEN NoFace
    ELSE CHOOSE f \in face_idx..Len(font_stack) :
            /\ get_char_index(font_stack[f], cp) > 0
            /\ \A g \in (f + 1)..Len(font_stack) :
                  get_char_index(font_stack[g], cp) = 0

\* the loop of lines 625-628 (and 297-300): the index of the first face with
\* a glyph for cp; faces count from 1 here
RECURSIVE face_idx_from(_, _)
face_idx_from(face_idx, cp) ==
    IF face_idx > Len(font_stack) THEN NoFace
    ELSE IF get_char_index(font_stack[face_idx], cp) > 0 THEN face_idx
    ELSE face_idx_from(face_idx + 1, cp)

\* (mutant of kernable_codepoints) the combining marks are kept
kernable_codepoints_all(codepoints) ==
    {codepoints[k] : k \in 1..Len(codepoints)}

\* kernable_codepoints, lines 290-291
kernable_codepoints(codepoints) ==
    {codepoints[k] : k \in 1..Len(codepoints)} \
    (COMBINING_MARKS_START .. COMBINING_MARKS_END)

\* (mutant of face_idx_cps) a face is given every kernable codepoint it has
\* a glyph for
face_idx_cps_any(codepoints) ==
    LET cps == kernable_codepoints(codepoints)
        faces == {face_idx_from(1, cp) : cp \in cps} \ {NoFace}
    IN [fi \in faces |-> {cp \in cps : get_char_index(font_stack[fi], cp) > 0}]

\* face_idx_cps, lines 293-305: the kernable codepoints each face serves
face_idx_cps(codepoints) ==
    LET cps == kernable_codepoints(codepoints)
        faces == {face_idx_from(1, cp) : cp \in cps} \ {NoFace}
    IN [fi \in faces |-> {cp \in cps : face_idx_from(1, cp) = fi}]

\* lig_face_idx_cps, lines 622-633: the ligature codepoints each face serves
lig_face_idx_cps(codepoints) ==
    LET cps == ligature_codepoints(codepoints)
        faces == {face_idx_from(1, cp) : cp \in cps} \ {NoFace}
    IN [fi \in faces |-> {cp \in cps : face_idx_from(1, cp) = fi}]

\* a ligature substitute glyph without a cmap entry (line 564 fails)
NoCp == -1

\* one ligature record of a LigatureSubst subtable, lines 551-575.  A record
\* is read with its glyph names already turned to codepoints: rule.seq is
\* first_cp and component_cps, rule.lig the codepoint of lig.LigGlyph or NoCp
ReadLigature(raw, rule) ==
    IF rule.lig # NoCp
    THEN DictSet(raw, rule.seq, rule.lig)
    ELSE IF rule.seq \in DOMAIN STANDARD_LIGATURE_MAP
         THEN DictSet(raw, rule.seq, STANDARD_LIGATURE_MAP[rule.seq])
         ELSE raw

\* filtered, lines 581-586
RECURSIVE Filtered(_, _, _, _)
Filtered(acc, raw, codepoints, all_codepoints_set) ==
    IF raw = <<>> THEN acc
    ELSE LET seq == Head(raw)[1]
             lig_cp == Head(raw)[2]
         IN Filtered(
                IF lig_cp \notin codepoints /\ lig_cp \notin all_codepoints_set
                THEN acc
                ELSE IF \A k \in 1..Len(seq) : seq[k] \in codepoints
                     THEN DictSet(acc, seq, lig_cp)
                     ELSE acc,
                Tail(raw), codepoints, all_codepoints_set)

\* packed, lines 597 and 610: (a << 16) | b.  The integer is held as its two
\* limbs <<packed >> 16, packed & 0xFFFF>>, so that no key outgrows the
\* integers of the checker; limb pairs order as the integers do
Packed(a, b) == <<BitOr(a, ShiftRight(b, 16)), BitAnd(b, \HFFFF)>>

\* the first pass, lines 595-598: the 2-codepoint rules of filtered
RECURSIVE TwoCharPairs(_, _)
TwoCharPairs(pairs, items) ==
    IF items = <<>> THEN pairs
    ELSE LET seq == Head(items)[1]
             lig_cp == Head(items)[2]
         IN TwoCharPairs(IF Len(seq) = 2
                         THEN Append(pairs, <<Packed(seq[1], seq[2]), lig_cp>>)
                         ELSE pairs,
                         Tail(items))

\* (mutant of ChainStep) the chained pair is keyed by the rule's own
\* second-to-last codepoint instead of the intermediate ligature
ChainStepRawKey(pairs, seq, lig_cp, filtered) ==
    IF Len(seq) < 3 THEN pairs
    ELSE LET prefix == SubSeq(seq, 1, Len(seq) - 1)
             last_cp == seq[Len(seq)]
         IN IF DictHas(filtered, prefix)
            THEN Append(pairs, <<Packed(seq[Len(seq) - 1], last_cp), lig_cp>>)
            ELSE pairs

\* (mutant of ChainStep) a rule is chained only when its prefix entered
\* filtered before the rule did
ChainStepAfterPrefix(pairs, seq, lig_cp, filtered) ==
    IF Len(seq) < 3 THEN pairs
    ELSE LET prefix == SubSeq(seq, 1, Len(seq) - 1)
             last_cp == seq[Len(seq)]
         IN IF /\ DictHas(filtered, prefix)
               /\ (CHOOSE k \in 1..Len(filtered) : filtered[k][1] = prefix)
                     < (CHOOSE k \in 1..Len(filtered) : filtered[k][1] = seq)
            THEN Append(pairs, <<Packed(DictGet(filtered, prefix), last_cp),
                                 lig_cp>>)
            ELSE pairs

\* the body of the second pass, lines 602-615
ChainStep(pairs, seq, lig_cp, filtered) ==
    IF Len(seq) < 3 THEN pairs
    ELSE LET prefix == SubSeq(seq, 1, Len(seq) - 1)
             last_cp == seq[Len(seq)]
         IN IF DictHas(filtered, prefix)
            THEN Append(pairs, <<Packed(DictGet(filtered, prefix), last_cp),
                                 lig_cp>>)
            ELSE pairs

\* the second pass, lines 601-615
RECURSIVE ChainPairs(_, _, _)
ChainPairs(pairs, items, filtered) ==
    IF items = <<>> THEN pairs
    ELSE ChainPairs(ChainStep(pairs, Head(items)[1], Head(items)[2], filtered),
                    Tail(items), filtered)

\* pairs, lines 593-617
DecomposedPairs(filtered) ==
    ChainPairs(TwoCharPairs(<<>>, filtered), filtered, filtered)

\* (mutant of unique_ligature_pairs) every pair is kept
KeepAllPairs(pairs) == pairs

\* the dedupe loop, lines 641-646; st holds seen_lig_keys and the list
RECURSIVE UniqueLoop(_, _)
UniqueLoop(st, pairs) ==
    IF pairs = <<>> THEN st
    ELSE UniqueLoop(IF Head(pairs)[1] \notin st.seen_lig_keys
                    THEN [seen_lig_keys |-> st.seen_lig_keys \cup {Head(pairs)[1]},
                          unique |-> Append(st.unique, Head(pairs))]
                    ELSE st,
                    Tail(pairs))

\* unique_ligature_pairs, lines 641-646
unique_ligature_pairs(pairs) ==
    UniqueLoop([seen_lig_keys |-> {}, unique |-> <<>>], pairs).unique

RECURSIVE InsertByKey(_, _)
InsertByKey(s, x) ==
    IF s = <<>> THEN <<x>>
    ELSE IF TupleLess(x[1], Head(s)[1]) THEN <<x>> \o s
    ELSE <<Head(s)>> \o InsertByKey(Tail(s), x)

\* sorted(l, key=lambda p: p[0]), line 647 (stable)
RECURSIVE SortedByKey(_)
SortedByKey(l) ==
    IF l = <<>> THEN <<>>
    ELSE InsertByKey(SortedByKey(SubSeq(l, 1, Len(l) - 1)), Last(l))

----------------------------------------------------------------------------
(* Kerning Extractor: lines 307-417.                                       *)
(*                                                                         *)
(* Python's float is the IEEE 754 binary64 format.  A positive float is    *)
(* held here as [m, e]: m the 53 bits of its significand, the most         *)
(* significant first, and e the exponent of the last of them, so that its  *)
(* value is m * 2^e.  Every result is rounded to nearest, ties to even.    *)

\* the bits of the significand of a binary64 float
MantissaBits == 53

Zeros(n) == [k \in 1..n |-> 0]

\* the binary digits of n > 0, the most significant first
RECURSIVE BitsOf(_)
BitsOf(n) == IF n = 0 THEN <<>> ELSE Append(BitsOf(n \div 2), n % 2)

\* the integer with the binary digits bits
RECURSIVE IntOf(_)
IntOf(bits) ==
    IF bits = <<>> THEN 0
    ELSE 2 * IntOf(SubSeq(bits, 1, Len(bits) - 1)) + Last(bits)

RECURSIVE StripZeros(_)
StripZeros(bits) ==
    IF bits # <<>> /\ Head(bits) = 0 THEN StripZeros(Tail(bits)) ELSE bits

\* bits + 1 on as many digits (all zeros when the carry runs out)
RECURSIVE Increment(_)
Increment(bits) ==
    IF bits = <<>> THEN <<>>
    ELSE IF Last(bits) = 0 THEN Append(SubSeq(bits, 1, Len(bits) - 1), 1)
    ELSE Append(Increment(SubSeq(bits, 1, Len(bits) - 1)), 0)

\* the float nearest to bits * 2^e (bits starts with a 1); sticky tells
\* that a non-zero part below the last bit was cut off
RoundToEven(bits, e, sticky) ==
    LET n == Len(bits)
    IN IF n <= MantissaBits
       THEN [m |-> bits \o Zeros(MantissaBits - n), e |-> e - (MantissaBits - n)]
       ELSE LET kept == SubSeq(bits, 1, MantissaBits)
                half == bits[MantissaBits + 1]
                rest == sticky \/ \E k \in (MantissaBits + 2)..n : bits[k] = 1
                up == half = 1 /\ (rest \/ kept[MantissaBits] = 1)
                inc == Increment(kept)
            IN IF ~up THEN [m |-> kept, e |-> e + n - MantissaBits]
               ELSE IF inc[1] = 0
               THEN [m |-> <<1>> \o Zeros(MantissaBits - 1),
                     e |-> e + n - MantissaBits + 1]
               ELSE [m |-> inc, e |-> e + n - MantissaBits]

\* float(n) for an integer 0 < n < 2^53
FloatOfInt(n) == RoundToEven(BitsOf(n), 0, FALSE)

\* the value of the one-element set S; a value bound by a set is computed
\* once, before what is done with it
Only(S) == CHOOSE x \in S : TRUE

\* long division of the digits num by d, from the k-th digit on, with the
\* remainder r and the digits quot of the quotient so far
RECURSIVE DivLoop(_, _, _, _, _)
DivLoop(num, k, d, r, quot) ==
    IF k > Len(num) \/ r < 0 \/ Len(quot) < 0 THEN [quot |-> quot, r |-> r]
    ELSE DivLoop(num, k + 1, d, (2 * r + num[k]) % d,
                 Append(quot, (2 * r + num[k]) \div d))

\* x / d for a float x > 0 and an integer 0 < d < 2^15 (which float(d)
\* holds exactly): the quotient of the significand, extended by 16 zeros so
\* that more than MantissaBits digits come out, then rounded
FloatDiv(x, d) ==
    Only({RoundToEven(StripZeros(q.quot), x.e - 16, q.r # 0) :
          q \in {DivLoop(x.m \o Zeros(16), 1, d, 0, <<>>)}})

\* the digits of bits * n, from the k-th digit down, with the carry and the
\* digits low of the product so far
RECURSIVE MulLoop(_, _, _, _, _)
MulLoop(bits, k, n, carry, low) ==
    IF k = 0 \/ carry < 0 \/ Len(low) < 0 THEN BitsOf(carry) \o low
    ELSE MulLoop(bits, k - 1, n, (bits[k] * n + carry) \div 2,
                 <<(bits[k] * n + carry) % 2>> \o low)

\* n * x for an integer n > 0 (which float(n) holds exactly) and a float
\* x > 0: the exact product of the significand, then rounded
FloatMul(n, x) ==
    Only({RoundToEven(product, x.e, FALSE) :
          product \in {MulLoop(x.m, Len(x.m), n, 0, <<>>)}})

\* math.floor of sign * x for a float x > 0
MathFloor(sign, x) ==
    IF x.e >= 0 THEN sign * IntOf(x.m) * 2^(x.e)
    ELSE LET cut == Min(-x.e, MantissaBits)
             whole == IntOf(SubSeq(x.m, 1, MantissaBits - cut))
             frac == \E k \in (MantissaBits - cut + 1)..MantissaBits : x.m[k] = 1
         IN IF sign > 0 THEN whole
            ELSE -(whole + IF frac THEN 1 ELSE 0)

\* line 412: ppem = size * 150.0 / 72.0
ppem(pt) == Only({FloatDiv(x, 72) : x \in {FloatOfInt(pt * 150)}})

\* line 398: scale = ppem / units_per_em
scale(pt, units_per_em) ==
    Only({FloatDiv(x, units_per_em) : x \in {ppem(pt)}})

\* line 403: int(math.floor(du * scale))
adjust(du, pt, units_per_em) ==
    IF du = 0 THEN 0
    ELSE Only({Only({MathFloor(IF du > 0 THEN 1 ELSE -1, y) :
                     y \in {FloatMul(IF du > 0 THEN du ELSE -du, x)}}) :
               x \in {scale(pt, units_per_em)}})

\* line 405: max(-128, min(127, adjust))
clamp(a) == Max(-128, Min(127, a))

\* lines 360-364: glyph_to_cp after the loop has visited the codepoints of
\* order; a later codepoint with the same glyph name replaces an earlier one
RECURSIVE GlyphToCp(_, _, _)
GlyphToCp(cmap, order, acc) ==
    IF order = <<>> THEN acc
    ELSE LET cp == Head(order)
         IN IF cp \notin DOMAIN cmap THEN GlyphToCp(cmap, Tail(order), acc)
            ELSE GlyphToCp(cmap, Tail(order),
                     [g \in DOMAIN acc \cup {cmap[cp]} |->
                         IF g = cmap[cp] THEN cp ELSE acc[g]])

\* raw_kern[key] = raw_kern.get(key, 0) + val
RawAdd(raw, key, val) ==
    [k \in DOMAIN raw \cup {key} |->
        (IF k \in DOMAIN raw THEN raw[k] ELSE 0) + (IF k = key THEN val ELSE 0)]

\* lines 373-375: the items of one legacy subtable
RECURSIVE KernTableLoop(_, _, _)
KernTableLoop(items, g2c, raw) ==
    IF items = <<>> THEN raw
    ELSE LET lg == Head(items)[1]
             rg == Head(items)[2]
         IN KernTableLoop(Tail(items), g2c,
                IF lg \in DOMAIN g2c /\ rg \in DOMAIN g2c
                THEN RawAdd(raw, <<lg, rg>>, Head(items)[3])
                ELSE raw)

\* lines 370-375: the legacy kern table (kernTables is empty for a font
\* without one)
RECURSIVE KernTablesLoop(_, _, _)
KernTablesLoop(kernTables, g2c, raw) ==
    IF kernTables = <<>> THEN raw
    ELSE KernTablesLoop(Tail(kernTables), g2c,
             KernTableLoop(Head(kernTables), g2c, raw))

\* lines 315-323: the records of one PairSet
RECURSIVE PairSetLoop(_, _, _, _)
PairSetLoop(coverage_glyph, records, g2c, raw) ==
    IF records = <<>> THEN raw
    ELSE LET pvr == Head(records)
         IN PairSetLoop(coverage_glyph, Tail(records), g2c,
                IF pvr.SecondGlyph \in DOMAIN g2c /\ pvr.XAdvance # 0
                THEN RawAdd(raw, <<coverage_glyph, pvr.SecondGlyph>>,
                            pvr.XAdvance)
                ELSE raw)

\* lines 309-323: a PairPos subtable of format 1, from its i-th coverage
\* glyph on
RECURSIVE Format1Loop(_, _, _, _)
Format1Loop(subtable, i, g2c, raw) ==
    IF i > Len(subtable.Coverage) THEN raw
    ELSE Format1Loop(subtable, i + 1, g2c,
             IF subtable.Coverage[i] \in DOMAIN g2c
             THEN PairSetLoop(subtable.Coverage[i], subtable.PairSet[i],
                              g2c, raw)
             ELSE raw)

\* class_def.get(glyph, 0)
ClassOf(class_def, glyph) ==
    IF glyph \in DOMAIN class_def THEN class_def[glyph] ELSE 0

\* lines 324-346: a PairPos subtable of format 2; every pair of glyph names
\* of glyph_to_cp is visited once (records count from 1 here)
Format2(subtable, g2c, raw) ==
    LET coverage == {subtable.Coverage[k] : k \in 1..Len(subtable.Coverage)}
        c1(g) == ClassOf(subtable.ClassDef1, g)
        c2(g) == ClassOf(subtable.ClassDef2, g)
        read(l, r) ==
            /\ l \in coverage
            /\ c1(l) < Len(subtable.Class1Record)
            /\ c2(r) < Len(subtable.Class1Record[c1(l) + 1])
        xa(l, r) == subtable.Class1Record[c1(l) + 1][c2(r) + 1]
        hit == {key \in (DOMAIN g2c) \X (DOMAIN g2c) :
                   read(key[1], key[2]) /\ xa(key[1], key[2]) # 0}
    IN [key \in DOMAIN raw \cup hit |->
           (IF key \in DOMAIN raw THEN raw[key] ELSE 0)
           + (IF key \in hit THEN xa(key[1], key[2]) ELSE 0)]

\* lines 307-346: _extract_pairpos_subtable
extract_pairpos_subtable(subtable, g2c, raw) ==
    IF subtable.Format = 1 THEN Format1Loop(subtable, 1, g2c, raw)
    ELSE IF subtable.Format = 2 THEN Format2(subtable, g2c, raw)
    ELSE raw

\* lines 387-393: the subtables of one lookup, Extension wrappers unwrapped
RECURSIVE SubTableLoop(_, _, _, _)
SubTableLoop(lookup, i, g2c, raw) ==
    IF i > Len(lookup.SubTable) THEN raw
    ELSE LET st == lookup.SubTable[i]
             actual == IF lookup.LookupType = 9 /\ "ExtSubTable" \in DOMAIN st
                       THEN st.ExtSubTable ELSE st
         IN SubTableLoop(lookup, i + 1, g2c,
                IF "Format" \in DOMAIN actual
                THEN extract_pairpos_subtable(actual, g2c, raw)
                ELSE raw)

\* lines 380-384: the lookups registered under 'kern' (lookups count from 1
\* here)
kern_lookup_indices(gpos) ==
    UNION {{gpos.FeatureRecord[k].LookupListIndex[j] :
               j \in 1..Len(gpos.FeatureRecord[k].LookupListIndex)} :
           k \in {k \in 1..Len(gpos.FeatureRecord) :
                     gpos.FeatureRecord[k].FeatureTag = "kern"}}

\* lines 385-393: the lookups of order, one after the other
RECURSIVE LookupLoop(_, _, _, _)
LookupLoop(gpos, order, g2c, raw) ==
    IF order = <<>> THEN raw
    ELSE LookupLoop(gpos, Tail(order), g2c,
             SubTableLoop(gpos.Lookup[Head(order)], 1, g2c, raw))

\* lines 397-407: the design units of raw_kern scaled to pixels
ScaleResult(raw, g2c, pt, units_per_em) ==
    LET kept == {k \in DOMAIN raw : adjust(raw[k], pt, units_per_em) # 0}
        key(k) == <<g2c[k[1]], g2c[k[2]]>>
    IN [ck \in {key(k) : k \in kept} |->
           LET k == CHOOSE k \in kept : key(k) = ck
           IN clamp(adjust(raw[k], pt, units_per_em))]

\* lines 348-407: extract_kerning_fonttools, for the orders in which the
\* codepoints and the lookup indices are visited
extract_kerning_fonttools(font, cp_order, lookup_order, pt) ==
    LET g2c == GlyphToCp(font.cmap, cp_order, <<>>)
    IN ScaleResult(LookupLoop(font.GPOS, lookup_order, g2c,
                       KernTablesLoop(font.kernTables, g2c, <<>>)),
                   g2c, pt, font.unitsPerEm)

----------------------------------------------------------------------------
(* The inputs explored. *)

\* '|', whose face gives the font-wide metrics (line 272)
PipeCodePoint == 124

\* the first codepoint an additional interval may name: the last two
\* codepoints of Basic Latin and what follows them
FirstProbe == \H7E

ProbeCodePoints == FirstProbe .. (FirstProbe + ProbeSpan)

\* a requested range outside every block of SCRIPT_GROUP_RANGES: the first
\* two codepoints after the combining marks
UnmappedInterval == <<\H0370, \H0371>>

\* --additional-intervals min,max, line 120: any two integers are taken,
\* also a pair with max below min
AddIntChoices ==
    (ProbeCodePoints \X ProbeCodePoints) \cup {UnmappedInterval}

SeqsUpTo(S, n) == UNION {[1..k -> S] : k \in 0..n}

\* the charmaps a font file may have
FaceChoices ==
    { {},
      {PipeCodePoint, \H7E, \H7F, \H80},
      {\H7F, \H81, \H0300, \H0370, \H0371} }

----------------------------------------------------------------------------
(* Each specification explores one stage and holds the variables of the    *)
(* other stages at these values.                                           *)

\* the quantizer's variables while another stage is explored
QuantIdle ==
    /\ is2Bit = FALSE
    /\ bitmap = [width |-> 0, rows |-> 0, buffer |-> <<>>]
    /\ pixels4g = <<>>
    /\ pixels = <<>>
    /\ packed = <<>>

\* the interval stage's variables while another stage is explored
IntervalsIdle ==
    /\ add_ints = <<>>
    /\ font_stack = <<>>
    /\ compress = FALSE
    /\ unmerged_intervals = <<>>
    /\ unvalidated_intervals = <<>>
    /\ intervals = <<>>
    /\ all_glyphs = <<>>
    /\ groups = <<>>
    /\ Intervals = <<>>

\* the kerning stage's variables while another stage is explored
KernIdle ==
    /\ kern_map = <<>>
    /\ left_class_map = <<>>
    /\ left_class_id = 1
    /\ right_class_map = <<>>
    /\ right_class_id = 1
    /\ kern_left_class_count = 0
    /\ kern_right_class_count = 0
    /\ kern_matrix = <<>>
    /\ kern_left_classes = <<>>
    /\ kern_right_classes = <<>>

\* the ligature stage's variables while another stage is explored
LigIdle ==
    /\ all_codepoints = <<>>
    /\ lig_order = <<>>
    /\ raw_ligatures = <<>>
    /\ rules_read = <<>>
    /\ filtered_log = <<>>
    /\ ligature_pairs = <<>>
    /\ LigaturePairs = <<>>

\* the kerning extractor's variables while another stage is explored
ExtractIdle ==
    /\ size = 12
    /\ tt_fonts = <<>>
    /\ kern_order = {}
    /\ kern_face = NoFace
    /\ glyph_to_cp = <<>>
    /\ raw_kern = <<>>
    /\ kern_result = <<>>

\* the glyph data and the descriptor before the glyph stage has run
DataIdle ==
    /\ pipe_face = NoFace
    /\ glyph_data = <<>>
    /\ glyph_props = <<>>
    /\ compressed_groups = <<>>
    /\ descriptor = <<>>

----------------------------------------------------------------------------
(* The pipeline of the interval, glyph and group tables. *)

Init ==
    /\ pc = "sort"
    /\ add_ints \in SeqsUpTo(AddIntChoices, MaxAddInts)
    /\ font_stack \in [1..NumFonts -> FaceChoices]
    /\ compress \in BOOLEAN
    /\ unmerged_intervals = <<>>
    /\ unvalidated_intervals = <<>>
    /\ intervals = <<>>
    /\ all_glyphs = <<>>
    /\ groups = <<>>
    /\ Intervals = <<>>
    /\ QuantIdle
    /\ KernIdle
    /\ LigIdle
    /\ DataIdle
    /\ ExtractIdle

\* line 143
SortIntervals ==
    /\ pc = "sort"
    /\ unmerged_intervals' = sorted(DefaultIntervals \o add_ints)
    /\ pc' = "merge"
    /\ UNCHANGED <<add_ints, font_stack, compress, unvalidated_intervals,
                   intervals, all_glyphs, groups, Intervals>>
    /\ UNCHANGED <<notIvars, dvars>>

\* lines 145-150
Merge ==
    /\ pc = "merge"
    /\ unvalidated_intervals' = MergeIntervals(<<>>, unmerged_intervals)
    /\ pc' = "validate"
    /\ UNCHANGED <<add_ints, font_stack, compress, unmerged_intervals,
                   intervals, all_glyphs, groups, Intervals>>
    /\ UNCHANGED <<notIvars, dvars>>

\* lines 152-161
Validate ==
    /\ pc = "validate"
    /\ intervals' = ValidateIntervals(<<>>, unvalidated_intervals)
    /\ pc' = "glyphs"
    /\ UNCHANGED <<add_ints, font_stack, compress, unmerged_intervals,
                   unvalidated_intervals, all_glyphs, groups, Intervals>>
    /\ UNCHANGED <<notIvars, dvars>>

\* lines 166-279: the glyph loop, the face of '|' and the glyph data
Glyphs ==
    /\ pc = "glyphs"
    /\ all_glyphs' = BuildGlyphs(<<>>, intervals)
    /\ pipe_face' = load_glyph(PipeCodePoint)
    /\ glyph_data' = GlyphData(all_glyphs')
    /\ glyph_props' = GlyphProps(all_glyphs')
    /\ pc' = "features"
    /\ UNCHANGED <<add_ints, font_stack, compress, unmerged_intervals,
                   unvalidated_intervals, intervals, groups, Intervals,
                   compressed_groups, descriptor>>
    /\ UNCHANGED notIvars

\* the two lowest codepoints of a set, as a pair, where it has two
LowestTwo(S) ==
    IF Cardinality(S) < 2 THEN {}
    ELSE LET c == CHOOSE x \in S : \A y \in S : x <= y
             d == CHOOSE x \in S \ {c} : \A y \in S \ {c} : x <= y
         IN {<<c, d>>}

\* a pair of codepoints per face among those the extraction assigns to it
FeaturePairs(assignment) ==
    UNION {LowestTwo(assignment[fi]) : fi \in DOMAIN assignment}

\* the pair maps the kerning extraction of lines 408-417 may leave in this
\* exploration: none, one pair, or two pairs that share a codepoint
KernOutcomes ==
    LET P == FeaturePairs(face_idx_cps(CodePointsOf(all_glyphs)))
    IN {<<>>} \cup {(p :> -2) : p \in P}
              \cup {(p :> -2) @@ (<<p[2], p[2]>> :> 1) : p \in P}

\* the tables the ligature extraction of lines 619-647 may leave in this
\* exploration: none, or one pair
LigatureOutcomes ==
    LET P == FeaturePairs(lig_face_idx_cps(CodePointsOf(all_glyphs)))
    IN {<<>>} \cup {<< <<Packed(p[1], p[2]), p[2]>> >> : p \in P}

\* lines 281-417: the kerning extraction, by its outcome (the extraction
\* itself is explored under SpecKernExtract)
ExtractKerning ==
    /\ pc = "features"
    /\ kern_map' \in KernOutcomes
    /\ pc' = "kerning"
    /\ UNCHANGED <<left_class_map, left_class_id, right_class_map,
                   right_class_id, kern_left_class_count,
                   kern_right_class_count, kern_matrix, kern_left_classes,
                   kern_right_classes, ivars, qvars, lvars, dvars,
                   xvars>>

\* lines 481-648: the ligature extraction, by its outcome (the extraction
\* itself is explored under SpecLig)
ExtractLigatures ==
    /\ pc = "kerning done"
    /\ LigaturePairs' \in LigatureOutcomes
    /\ pc' = "groups"
    /\ UNCHANGED <<all_codepoints, lig_order, raw_ligatures, rules_read,
                   filtered_log, ligature_pairs, ivars, qvars, kvars, dvars,
                   xvars>>

\* lines 653-737, taken with --compress; line 737 divides by
\* total_uncompressed
Groups ==
    /\ pc = "groups"
    /\ compress
    /\ groups' = BuildGroups(all_glyphs)
    /\ LET st == CompressLoop([compressed_groups |-> <<>>,
                               props |-> glyph_props],
                              groups', all_glyphs)
       IN /\ compressed_groups' = st.compressed_groups
          /\ glyph_props' = st.props
    /\ pc' = IF Len(glyph_data) = 0 THEN "ZeroDivisionError" ELSE "emit"
    /\ UNCHANGED <<add_ints, font_stack, compress, unmerged_intervals,
                   unvalidated_intervals, intervals, all_glyphs, Intervals,
                   pipe_face, glyph_data, descriptor>>
    /\ UNCHANGED notIvars

\* line 653, without --compress
NoGroups ==
    /\ pc = "groups"
    /\ ~compress
    /\ pc' = "emit"
    /\ UNCHANGED <<ivars, notIvars, dvars>>

\* lines 739-847: the arrays are printed, then the descriptor; line 815
\* reads face.size, which raises AttributeError when face is None
Emit ==
    /\ pc = "emit"
    /\ Intervals' = EmitIntervals(<<>>, 0, intervals)
    /\ IF pipe_face = NoFace
       THEN /\ descriptor' = DescriptorHead(Len(intervals))
            /\ pc' = "AttributeError"
       ELSE /\ descriptor' =
                  DescriptorHead(Len(intervals))
                  \o DescriptorMetrics(pipe_face, is2Bit)
                  \o DescriptorGroups(compress, compressed_groups)
                  \o DescriptorKerning(kern_map, kern_left_classes,
                                       kern_right_classes,
                                       kern_left_class_count,
                                       kern_right_class_count)
                  \o DescriptorLigatures(LigaturePairs)
            /\ pc' = "done"
    /\ UNCHANGED <<add_ints, font_stack, compress, unmerged_intervals,
                   unvalidated_intervals, intervals, all_glyphs, groups,
                   pipe_face, glyph_data, glyph_props, compressed_groups>>
    /\ UNCHANGED notIvars


----------------------------------------------------------------------------
(* The quantizer on one rasterized glyph. *)

\* the 8-bit grey levels a raster pixel takes: background and full ink
PixelChoices == {0, 255}

\* a FreeType bitmap in 8-bit grey mode: rows * width bytes, row-major
BitmapChoices ==
    UNION {[width : {w}, rows : {h}, buffer : [1..(w * h) -> PixelChoices]] :
           <<w, h>> \in {wh \in (0..MaxPixels) \X (0..MaxPixels) :
                          wh[1] * wh[2] <= MaxPixels}}

InitQuant ==
    /\ pc = "pixels4g"
    /\ is2Bit \in BOOLEAN
    /\ bitmap \in BitmapChoices
    /\ pixels4g = <<>>
    /\ pixels = <<>>
    /\ packed = <<>>
    /\ IntervalsIdle
    /\ KernIdle
    /\ LigIdle
    /\ DataIdle
    /\ ExtractIdle

\* lines 174-189
Pixels4g ==
    /\ pc = "pixels4g"
    /\ pixels4g' = BuildPixels4g(bitmap)
    /\ pc' = "pack"
    /\ UNCHANGED <<is2Bit, bitmap, pixels, packed, notQvars>>

\* lines 191-215 and 254, with --2bit
Pack2Bit ==
    /\ pc = "pack"
    /\ is2Bit
    /\ pixels' = pixels2b(bitmap, pixels4g)
    /\ pc' = "bytes"
    /\ UNCHANGED <<is2Bit, bitmap, pixels4g, packed, notQvars>>

\* lines 226-242 and 254, without --2bit
PackBW ==
    /\ pc = "pack"
    /\ ~is2Bit
    /\ pixels' = pixelsbw(bitmap, pixels4g)
    /\ pc' = "bytes"
    /\ UNCHANGED <<is2Bit, bitmap, pixels4g, packed, notQvars>>

\* line 257: bytes(pixels) raises ValueError unless every value is in
\* range(256)
Bytes ==
    /\ pc = "bytes"
    /\ IF \A k \in 1..Len(pixels) : pixels[k] \in 0..255
       THEN packed' = pixels /\ pc' = "packed"
       ELSE packed' = packed /\ pc' = "ValueError"
    /\ UNCHANGED <<is2Bit, bitmap, pixels4g, pixels, notQvars>>

NextQuant ==
    \/ Pixels4g
    \/ Pack2Bit
    \/ PackBW
    \/ Bytes

SpecQuant == InitQuant /\ [][NextQuant]_vars

\* grey values on both sides of every threshold of the quantizer, with the
\* low nibble set where the 4-bit intensity is just below a threshold
LevelChoices == {\H1F, \H20, \H3F, \H40, \H7F, \H80, \HBF, \HC0}

\* a buffer of n pixels, all white or all black, except at position p and,
\* where both exist, at the position after it
LevelBuffers(n) ==
    {[i \in 1..n |-> IF i = p THEN a ELSE IF i = p + 1 THEN b ELSE base] :
        <<p, a, b, base>> \in (1..n) \X LevelChoices \X
                              (LevelChoices \cup {0}) \X PixelChoices}

\* the rasters of the threshold exploration
LevelBitmapChoices ==
    UNION {{[width |-> wh[1], rows |-> wh[2], buffer |-> buf] :
               buf \in LevelBuffers(wh[1] * wh[2])} :
           wh \in {v \in (1..MaxPixels) \X (1..MaxPixels) :
                     v[1] * v[2] <= MaxPixels}}

InitQuantLevels ==
    /\ pc = "pixels4g"
    /\ is2Bit \in BOOLEAN
    /\ bitmap \in LevelBitmapChoices
    /\ pixels4g = <<>>
    /\ pixels = <<>>
    /\ packed = <<>>
    /\ IntervalsIdle
    /\ KernIdle
    /\ LigIdle
    /\ DataIdle
    /\ ExtractIdle

\* the quantizer on rasters with grey values around the thresholds
SpecQuantLevels == InitQuantLevels /\ [][NextQuant]_vars

----------------------------------------------------------------------------
(* The kerning class compressor on one extracted pair map. *)

\* the codepoints that stand left and right in the explored pairs:
\* 'A', 'T', A-grave and 'A', 'V', 'W'
LeftCpChoices == {\H41, \H54, \HC0}

RightCpChoices == {\H41, \H56, \H57}

\* the pixel adjustments of the explored pairs: non-zero (line 404) and
\* within -128..127 (line 405)
AdjustChoices == {-3, -2, 1}

\* the pair maps explored: up to MaxPairs pairs
KernMapChoices ==
    UNION {[D -> AdjustChoices] :
           D \in {D \in SUBSET (LeftCpChoices \X RightCpChoices) :
                  Cardinality(D) <= MaxPairs}}

InitKern ==
    /\ pc = "kerning"
    /\ kern_map \in KernMapChoices
    /\ left_class_map = <<>>
    /\ left_class_id = 1
    /\ right_class_map = <<>>
    /\ right_class_id = 1
    /\ kern_left_class_count = 0
    /\ kern_right_class_count = 0
    /\ kern_matrix = <<>>
    /\ kern_left_classes = <<>>
    /\ kern_right_classes = <<>>
    /\ IntervalsIdle
    /\ QuantIdle
    /\ LigIdle
    /\ DataIdle
    /\ ExtractIdle

\* line 428, kern_map empty: lines 422-426 stand
NoKerning ==
    /\ pc = "kerning"
    /\ kern_map = <<>>
    /\ pc' = "kerning done"
    /\ UNCHANGED <<kvars, notKvars>>

\* lines 428-444
ClassifyLeft ==
    /\ pc = "kerning"
    /\ kern_map # <<>>
    /\ LET st == LeftClassLoop(ClassInit, SortedSeq(AllLeftCps(kern_map)),
                               kern_map)
       IN /\ left_class_map' = st.class_map
          /\ left_class_id' = st.class_id
    /\ pc' = "right classes"
    /\ UNCHANGED <<kern_map, right_class_map, right_class_id,
                   kern_left_class_count, kern_right_class_count, kern_matrix,
                   kern_left_classes, kern_right_classes, notKvars>>

\* lines 446-455
ClassifyRight ==
    /\ pc = "right classes"
    /\ LET st == RightClassLoop(ClassInit, SortedSeq(AllRightCps(kern_map)),
                                kern_map)
       IN /\ right_class_map' = st.class_map
          /\ right_class_id' = st.class_id
    /\ pc' = "class counts"
    /\ UNCHANGED <<kern_map, left_class_map, left_class_id,
                   kern_left_class_count, kern_right_class_count, kern_matrix,
                   kern_left_classes, kern_right_classes, notKvars>>

\* lines 457-463 (more than 255 classes only prints a warning)
ClassCounts ==
    /\ pc = "class counts"
    /\ kern_left_class_count' = left_class_id - 1
    /\ kern_right_class_count' = right_class_id - 1
    /\ pc' = "matrix"
    /\ UNCHANGED <<kern_map, left_class_map, left_class_id, right_class_map,
                   right_class_id, kern_matrix, kern_left_classes,
                   kern_right_classes, notKvars>>

\* lines 465-470; kern_map.items() comes in the dict's insertion order
BuildMatrix ==
    /\ pc = "matrix"
    /\ \E keys \in Orders(DOMAIN kern_map) :
          kern_matrix' =
              MatrixLoop([k \in 1..(kern_left_class_count
                                    * kern_right_class_count) |-> 0],
                         keys, kern_map)
    /\ pc' = "class entries"
    /\ UNCHANGED <<kern_map, left_class_map, left_class_id, right_class_map,
                   right_class_id, kern_left_class_count,
                   kern_right_class_count, kern_left_classes,
                   kern_right_classes, notKvars>>

\* lines 472-474
SortClassEntries ==
    /\ pc = "class entries"
    /\ kern_left_classes' = ClassEntries(left_class_map)
    /\ kern_right_classes' = ClassEntries(right_class_map)
    /\ pc' = "kerning done"
    /\ UNCHANGED <<kern_map, left_class_map, left_class_id, right_class_map,
                   right_class_id, kern_left_class_count,
                   kern_right_class_count, kern_matrix, notKvars>>

NextKern ==
    \/ NoKerning
    \/ ClassifyLeft
    \/ ClassifyRight
    \/ ClassCounts
    \/ BuildMatrix
    \/ SortClassEntries

SpecKern == InitKern /\ [][NextKern]_vars

----------------------------------------------------------------------------
(* The ligature extractor on a font stack. *)

\* the font stacks explored ('f' 'i' 's' 't' and the ligatures ff, ffi, st):
\* one font with the f-ligatures; a font without ligature glyphs before one
\* that has them; two fonts serving disjoint codepoints
LigStackChoices ==
    { << {\H66, \H69, \HFB00, \HFB03} >>,
      << {\H66, \H69}, {\H66, \H69, \H73, \H74, \HFB00, \HFB03, \HFB06} >>,
      << {\H73, \H74, \HFB06}, {\H66, \H69, \HFB00, \HFB03} >> }

\* the input sequences of the ligature records explored
LigSeqChoices ==
    { <<\H66, \H66>>, <<\HFB00, \H69>>, <<\H66, \H66, \H69>>, <<\H73, \H74>>,
      <<\H66, \H66, \H69, \H6C>>,
      <<\H66, \H10069>>, <<\H67, \H69>>, <<\H10069, \H66>>,
      <<\H41, \H0301>>, <<\H41, \H56>> }

\* the ligature records a face's GSUB table may hold: every glyph of the
\* input sequence has a cmap entry in the face (lines 548, 557), the
\* substitute glyph has one or none
LigatureChoices(face) ==
    {rule \in [seq : LigSeqChoices,
               lig : (face \cap {\HFB00, \HFB03, \HFB06, \HC0}) \cup {NoCp}] :
        \A k \in 1..Len(rule.seq) : rule.seq[k] \in face}

InitLig ==
    /\ pc = "glyph stage"
    /\ font_stack \in LigStackChoices
    /\ add_ints = <<>>
    /\ compress = FALSE
    /\ unmerged_intervals = <<>>
    /\ unvalidated_intervals = <<>>
    /\ intervals = <<>>
    /\ all_glyphs = <<>>
    /\ groups = <<>>
    /\ Intervals = <<>>
    /\ QuantIdle
    /\ KernIdle
    /\ LigIdle
    /\ DataIdle
    /\ ExtractIdle

\* lines 143-269 and 289: the glyph stage on the default intervals
GlyphStage ==
    /\ pc = "glyph stage"
    /\ unmerged_intervals' = sorted(DefaultIntervals \o add_ints)
    /\ unvalidated_intervals' = MergeIntervals(<<>>, unmerged_intervals')
    /\ intervals' = ValidateIntervals(<<>>, unvalidated_intervals')
    /\ all_glyphs' = BuildGlyphs(<<>>, intervals')
    /\ all_codepoints' = CodePointsOf(all_glyphs')
    /\ pc' = "ligatures"
    /\ UNCHANGED <<add_ints, font_stack, compress, groups, Intervals,
                   lig_order, raw_ligatures, rules_read, filtered_log,
                   ligature_pairs, LigaturePairs, qvars, kvars, dvars,
                   xvars>>

\* lines 619-636: the faces that serve ligature codepoints, in the order in
\* which lig_face_idx_cps.items() yields them.  That is the order in which
\* iterating the set ligature_codepoints first meets a codepoint of each
\* face: any order of the faces.
StartLigatures ==
    /\ pc = "ligatures"
    /\ lig_order' \in Orders(DOMAIN lig_face_idx_cps(all_codepoints))
    /\ pc' = IF lig_order' = <<>> THEN "dedupe" ELSE "gsub"
    /\ UNCHANGED <<all_codepoints, raw_ligatures, rules_read, filtered_log,
                   ligature_pairs, LigaturePairs, ivars, qvars, kvars, dvars,
                   xvars>>

\* lines 547-575: the GSUB walk of the face being read meets one more
\* ligature record
ReadRule ==
    /\ pc = "gsub"
    /\ Len(rules_read) < MaxRules
    /\ \E rule \in LigatureChoices(font_stack[Head(lig_order)]) :
          /\ raw_ligatures' = ReadLigature(raw_ligatures, rule)
          /\ rules_read' = Append(rules_read, <<Head(lig_order), rule>>)
    /\ UNCHANGED <<pc, all_codepoints, lig_order, filtered_log, ligature_pairs,
                   LigaturePairs, ivars, qvars, kvars, dvars,
                   xvars>>

\* lines 577-617 and 638: the walk of the face is over; its rules are
\* filtered and decomposed, and the pairs extend ligature_pairs
FinishFace ==
    /\ pc = "gsub"
    /\ LET face_idx == Head(lig_order)
           cps == lig_face_idx_cps(all_codepoints)[face_idx]
           filtered == Filtered(<<>>, raw_ligatures, cps,
                           {all_codepoints[k] : k \in 1..Len(all_codepoints)})
       IN /\ ligature_pairs' = ligature_pairs \o DecomposedPairs(filtered)
          /\ filtered_log' = Append(filtered_log, <<face_idx, filtered>>)
    /\ raw_ligatures' = <<>>
    /\ lig_order' = Tail(lig_order)
    /\ pc' = IF lig_order' = <<>> THEN "dedupe" ELSE "gsub"
    /\ UNCHANGED <<all_codepoints, rules_read, LigaturePairs,
                   ivars, qvars, kvars, dvars,
                   xvars>>

\* lines 640-647
Dedupe ==
    /\ pc = "dedupe"
    /\ LigaturePairs' = SortedByKey(unique_ligature_pairs(ligature_pairs))
    /\ pc' = "ligatures done"
    /\ UNCHANGED <<all_codepoints, lig_order, raw_ligatures, rules_read,
                   filtered_log, ligature_pairs, ivars, qvars, kvars, dvars,
                   xvars>>

NextLig ==
    \/ GlyphStage
    \/ StartLigatures
    \/ ReadRule
    \/ FinishFace
    \/ Dedupe

SpecLig == InitLig /\ [][NextLig]_vars

----------------------------------------------------------------------------
(* The ligature extractor on fonts with a rule of four codepoints and with *)
(* a glyph for a codepoint above U+FFFF.                                   *)

\* --additional-intervals 0x10069,0x10069
WideAddInts == << <<\H10069, \H10069>> >>

\* one font with f, i, l and the ligatures; one with f, i, U+10069 and the
\* ligatures; one with 'g' as well
LigWideStackChoices ==
    { << {\H66, \H69, \H6C, \HFB00, \HFB03, \HFB06} >>,
      << {\H66, \H69, \H10069, \HFB00} >>,
      << {\H66, \H67, \H69, \H10069, \HFB00, \HFB03} >> }

InitLigWide ==
    /\ pc = "glyph stage"
    /\ font_stack \in LigWideStackChoices
    /\ add_ints = WideAddInts
    /\ compress = FALSE
    /\ unmerged_intervals = <<>>
    /\ unvalidated_intervals = <<>>
    /\ intervals = <<>>
    /\ all_glyphs = <<>>
    /\ groups = <<>>
    /\ Intervals = <<>>
    /\ QuantIdle
    /\ KernIdle
    /\ LigIdle
    /\ DataIdle
    /\ ExtractIdle

SpecLigWide == InitLigWide /\ [][NextLig]_vars

----------------------------------------------------------------------------
(* The kerning extractor on a font stack. *)

\* the requested codepoints: 'A', 'V', A-grave and the combining acute
KernCodePoints == {\H41, \H56, \HC0, \H0301}

\* font.getBestCmap(): every codepoint with a glyph of its own; A-grave
\* drawn by the glyph of 'A'; 'V' alone
PlainCmap ==
    (\H41 :> "A") @@ (\H56 :> "V") @@ (\HC0 :> "Agrave")
    @@ (\H0301 :> "acutecomb")

AliasedCmap == (\H41 :> "A") @@ (\H56 :> "V") @@ (\HC0 :> "A")

PartialCmap == (\H56 :> "V")

\* font['kern'].kernTables, each subtable by the items of its kernTable:
\* one subtable; two subtables that share pairs, with values that add up to
\* one pixel more or less, to nothing, and to more than a byte holds
OneKernTable ==
    << << <<"A", "V", -480>>, <<"V", "A", 20>>, <<"A", "acutecomb", -100>> >> >>

TwoKernTables ==
    << << <<"A", "V", -480>>, <<"V", "A", 20>>, <<"V", "V", -1>> >>,
       << <<"A", "V", 960>>, <<"V", "A", -20>>, <<"Agrave", "V", -6000>>,
          <<"Agrave", "A", 6000>> >> >>

\* font['GPOS'].table: no kern feature (as for a font without the table)
NoGpos == [FeatureRecord |-> <<>>, Lookup |-> <<>>]

\* a kern feature with a format 1 lookup and a format 2 lookup inside an
\* Extension wrapper, and a lookup of another feature
KernGpos ==
    [FeatureRecord |->
        << [FeatureTag |-> "kern", LookupListIndex |-> <<1, 2>>],
           [FeatureTag |-> "mark", LookupListIndex |-> <<3>>] >>,
     Lookup |->
        << [LookupType |-> 2,
            SubTable |->
               << [Format |-> 1,
                   Coverage |-> <<"A", "V">>,
                   PairSet |->
                      << << [SecondGlyph |-> "V", XAdvance |-> -1] >>,
                         << [SecondGlyph |-> "A", XAdvance |-> 0],
                            [SecondGlyph |-> "Agrave", XAdvance |-> 40] >> >>] >>],
           [LookupType |-> 9,
            SubTable |->
               << [ExtSubTable |->
                      [Format |-> 2,
                       Coverage |-> <<"A", "Agrave">>,
                       ClassDef1 |-> ("Agrave" :> 1),
                       ClassDef2 |-> ("V" :> 1),
                       Class1Record |-> << <<0, -2048>>, <<0, -82>> >>]] >>],
           [LookupType |-> 2,
            SubTable |->
               << [Format |-> 1,
                   Coverage |-> <<"A">>,
                   PairSet |->
                      << << [SecondGlyph |-> "V", XAdvance |-> -500] >> >>] >>] >>]

\* the font files explored
TTFontChoices ==
    { [unitsPerEm |-> 1000, cmap |-> AliasedCmap,
       kernTables |-> TwoKernTables, GPOS |-> NoGpos],
      [unitsPerEm |-> 1000, cmap |-> PlainCmap,
       kernTables |-> TwoKernTables, GPOS |-> KernGpos],
      [unitsPerEm |-> 2048, cmap |-> PlainCmap,
       kernTables |-> OneKernTable, GPOS |-> KernGpos],
      [unitsPerEm |-> 2048, cmap |-> PartialCmap,
       kernTables |-> <<>>, GPOS |-> NoGpos],
      [unitsPerEm |-> 1000, cmap |-> PlainCmap,
       kernTables |-> OneKernTable, GPOS |-> NoGpos],
      [unitsPerEm |-> 2048, cmap |-> AliasedCmap,
       kernTables |-> <<>>, GPOS |-> KernGpos],
      [unitsPerEm |-> 1000, cmap |-> PartialCmap,
       kernTables |-> << << <<"V", "V", -480>> >> >>, GPOS |-> NoGpos] }

\* args.size: a size whose ppem is a whole number, and two whose ppem is not
SizeChoices == {12, 13, 19}

\* the codepoints of the glyph records, for the charmaps of font_stack
ServedCodePoints(stack) ==
    SortedSeq({cp \in KernCodePoints :
                  \E f \in 1..Len(stack) : get_char_index(stack[f], cp) > 0})

InitKernExtract ==
    /\ pc = "kern faces"
    /\ size \in SizeChoices
    /\ tt_fonts \in [1..NumFonts -> TTFontChoices]
    /\ font_stack = [f \in 1..NumFonts |-> DOMAIN tt_fonts[f].cmap]
    /\ all_codepoints = ServedCodePoints(font_stack)
    /\ kern_order = DOMAIN face_idx_cps(all_codepoints)
    /\ kern_face = NoFace
    /\ glyph_to_cp = <<>>
    /\ raw_kern = <<>>
    /\ kern_result = <<>>
    /\ add_ints = <<>>
    /\ compress = FALSE
    /\ unmerged_intervals = <<>>
    /\ unvalidated_intervals = <<>>
    /\ intervals = <<>>
    /\ all_glyphs = <<>>
    /\ groups = <<>>
    /\ Intervals = <<>>
    /\ lig_order = <<>>
    /\ raw_ligatures = <<>>
    /\ rules_read = <<>>
    /\ filtered_log = <<>>
    /\ ligature_pairs = <<>>
    /\ LigaturePairs = <<>>
    /\ KernIdle
    /\ QuantIdle
    /\ DataIdle

\* what the actions of the kerning extractor leave alone
notXvars ==
    <<size, tt_fonts, ivars, qvars, lvars, dvars, left_class_map,
      left_class_id, right_class_map, right_class_id, kern_left_class_count,
      kern_right_class_count, kern_matrix, kern_left_classes,
      kern_right_classes>>

\* lines 415-416 and 355-367: the next face of face_idx_cps is taken and
\* its font file opened; the faces come in the order in which the set
\* kernable_codepoints was iterated, and glyph_to_cp is filled in the order
\* in which the set cps is iterated
OpenFont ==
    /\ pc = "kern faces"
    /\ \E face_idx \in kern_order :
          /\ kern_face' = face_idx
          /\ kern_order' = kern_order \ {face_idx}
          /\ \E order \in Orders(face_idx_cps(all_codepoints)[face_idx]) :
                glyph_to_cp' = GlyphToCp(tt_fonts[face_idx].cmap, order, <<>>)
    /\ raw_kern' = <<>>
    /\ pc' = "kern table"
    /\ UNCHANGED <<kern_map, kern_result, notXvars>>

\* lines 369-375: the legacy kern table
ReadKernTable ==
    /\ pc = "kern table"
    /\ raw_kern' = KernTablesLoop(tt_fonts[kern_face].kernTables, glyph_to_cp,
                                  raw_kern)
    /\ pc' = "gpos"
    /\ UNCHANGED <<kern_map, kern_order, kern_face, glyph_to_cp, kern_result,
                   notXvars>>

\* lines 377-395: the GPOS 'kern' feature; the lookups come in the order in
\* which the set kern_lookup_indices is iterated
ReadGpos ==
    /\ pc = "gpos"
    /\ \E order \in Orders(kern_lookup_indices(tt_fonts[kern_face].GPOS)) :
          raw_kern' = LookupLoop(tt_fonts[kern_face].GPOS, order, glyph_to_cp,
                                 raw_kern)
    /\ pc' = "scale"
    /\ UNCHANGED <<kern_map, kern_order, kern_face, glyph_to_cp, kern_result,
                   notXvars>>

\* lines 397-407: the values are scaled and the dict is returned
ScaleKerning ==
    /\ pc = "scale"
    /\ kern_result' = ScaleResult(raw_kern, glyph_to_cp, size,
                                  tt_fonts[kern_face].unitsPerEm)
    /\ pc' = "update"
    /\ UNCHANGED <<kern_map, kern_order, kern_face, glyph_to_cp, raw_kern,
                   notXvars>>

\* line 417: kern_map.update(...)
UpdateKernMap ==
    /\ pc = "update"
    /\ kern_map' = kern_result @@ kern_map
    /\ pc' = "kern faces"
    /\ UNCHANGED <<kern_order, kern_face, glyph_to_cp, raw_kern, kern_result,
                   notXvars>>

\* line 419: every face of face_idx_cps has been read
KerningExtracted ==
    /\ pc = "kern faces"
    /\ kern_order = {}
    /\ pc' = "kerning"
    /\ UNCHANGED <<kern_map, xvars, notXvars>>

NextKernExtract ==
    \/ OpenFont
    \/ ReadKernTable
    \/ ReadGpos
    \/ ScaleKerning
    \/ UpdateKernMap
    \/ KerningExtracted

SpecKernExtract == InitKernExtract /\ [][NextKernExtract]_vars

----------------------------------------------------------------------------
(* Kerning and ligatures of a font stack: the kerning extractor, the class *)
(* compressor and the ligature extractor in the order of the script.       *)

\* lines 476-488: the class tables are reported; the ligature stage begins
KerningReported ==
    /\ pc = "kerning done"
    /\ pc' = "ligatures"
    /\ UNCHANGED <<ivars, qvars, kvars, lvars, dvars, xvars>>

NextFeatures ==
    \/ NextKernExtract
    \/ NextKern
    \/ KerningReported
    \/ StartLigatures
    \/ ReadRule
    \/ FinishFace
    \/ Dedupe

SpecFeatures == InitKernExtract /\ [][NextFeatures]_vars

----------------------------------------------------------------------------
(* The whole pipeline: intervals, glyphs, kerning classes, ligature table, *)
(* groups and emission.                                                    *)

Next ==
    \/ SortIntervals
    \/ Merge
    \/ Validate
    \/ Glyphs
    \/ ExtractKerning
    \/ NoKerning
    \/ ClassifyLeft
    \/ ClassifyRight
    \/ ClassCounts
    \/ BuildMatrix
    \/ SortClassEntries
    \/ ExtractLigatures
    \/ Groups
    \/ NoGroups
    \/ Emit

Spec == Init /\ [][Next]_vars

----------------------------------------------------------------------------
(* Properties of the interval, glyph and group tables (under Spec). *)

\* the arrays of the header have been printed (lines 750-808): the run is
\* complete, or it stopped inside the descriptor
ArraysPrinted == pc \in {"done", "AttributeError"}

\* the ranges requested on this run: intervals + add_ints, line 143
RequestedIntervals == DefaultIntervals \o add_ints

\* every codepoint of a requested range
RequestedCodePoints ==
    UNION {RequestedIntervals[i][1] .. RequestedIntervals[i][2] :
           i \in 1..Len(RequestedIntervals)}

\* some font of the stack has a glyph for c
Renderable(c) ==
    \E f \in 1..Len(font_stack) : get_char_index(font_stack[f], c) > 0

\* c lies inside an emitted interval
InEmittedInterval(c) ==
    \E k \in 1..Len(Intervals) : Intervals[k][1] <= c /\ c <= Intervals[k][2]

\* the number of codepoints of the first n emitted intervals
RECURSIVE SizeOfFirst(_)
SizeOfFirst(n) ==
    IF n = 0 THEN 0
    ELSE SizeOfFirst(n - 1) + (Intervals[n][2] - Intervals[n][1] + 1)

\* C3 (coverage closure): when the Intervals array has been emitted, a
\* codepoint of the requested ranges lies inside an emitted interval exactly
\* when some font of the stack reports a non-zero glyph index for it.
C3_CoverageClosure ==
    ArraysPrinted =>
        \A c \in RequestedCodePoints : InEmittedInterval(c) <=> Renderable(c)

\* C3 witness: a run that split a requested range at an unserved codepoint
\* lying between two served ones.
C3_Witness ==
    /\ pc = "done"
    /\ \E c \in RequestedCodePoints :
          /\ ~Renderable(c) /\ ~InEmittedInterval(c)
          /\ Renderable(c - 1) /\ InEmittedInterval(c - 1)
          /\ Renderable(c + 1) /\ InEmittedInterval(c + 1)

\* C4 (as claimed): the emitted interval list is sorted ascending and
\* pairwise non-overlapping: each interval ends before the next one starts.
C4_IntervalsDisjoint ==
    ArraysPrinted =>
        \A k \in 1..(Len(Intervals) - 1) : Intervals[k][2] < Intervals[k + 1][1]

\* C5 (as claimed): the glyph array is in strictly ascending codepoint
\* order, so that no codepoint appears twice.
C5_GlyphsStrictlyAscending ==
    ArraysPrinted =>
        \A i \in 1..(Len(all_glyphs) - 1) :
            all_glyphs[i].code_point < all_glyphs[i + 1].code_point

\* C15 (as claimed): range merging leaves a maximal disjoint set: any two
\* consecutive ranges [s1,e1], [s2,e2] of the merged list satisfy
\* s2 > e1 + 1.
C15_MergedMaximalDisjoint ==
    pc \notin {"sort", "merge"} =>
        \A k \in 1..(Len(unvalidated_intervals) - 1) :
            unvalidated_intervals[k + 1][1] > unvalidated_intervals[k][2] + 1

\* the faces of the stack with a glyph for c
Serving(c) ==
    {f \in 1..Len(font_stack) : get_char_index(font_stack[f], c) > 0}

\* the faces to which an extraction assigns c
AssignedBy(assignment, c) == {fi \in DOMAIN assignment : c \in assignment[fi]}

\* C16 (font priority): every glyph record is rendered from the lowest-index
\* face that reports a non-zero glyph index for its codepoint, and the face
\* to which the kerning extraction and the ligature extraction assign the
\* codepoint is that same face (a combining mark is assigned to none).
C16_FontPriority ==
    ArraysPrinted =>
        \A k \in 1..Len(all_glyphs) :
            LET c == all_glyphs[k].code_point
                face == all_glyphs[k].face
                assigned == IF c \in COMBINING_MARKS_START..COMBINING_MARKS_END
                            THEN {} ELSE {face}
            IN /\ face \in Serving(c)
               /\ \A f \in Serving(c) : face <= f
               /\ AssignedBy(face_idx_cps(CodePointsOf(all_glyphs)), c) = assigned
               /\ AssignedBy(lig_face_idx_cps(CodePointsOf(all_glyphs)), c) = assigned

\* a codepoint that both faces serve is taken from the first, another is
\* taken from the second, and a combining mark has a glyph
C16_Witness ==
    /\ pc = "done"
    /\ \E k \in 1..Len(all_glyphs) :
          /\ Cardinality(Serving(all_glyphs[k].code_point)) = 2
          /\ all_glyphs[k].face = 1
    /\ \E k \in 1..Len(all_glyphs) : all_glyphs[k].face = 2
    /\ \E k \in 1..Len(all_glyphs) :
          all_glyphs[k].code_point = COMBINING_MARKS_START

\* C6 (interval-offset indexing): for every emitted {start, end, offset}
\* and every codepoint c of start..end, the glyph record at index
\* offset + (c - start) (counted from 0) has codepoint c; the offset is the
\* number of codepoints of the earlier intervals, and the glyph count is
\* the number of codepoints of all intervals.  It fails after an additional
\* interval with max below min: the pair is emitted as an interval and
\* takes one off the running offset, so the later intervals point one
\* glyph short.
C6_IntervalOffsetIndexing ==
    ArraysPrinted =>
        /\ \A k \in 1..Len(Intervals) :
              /\ Intervals[k][3] = SizeOfFirst(k - 1)
              /\ \A c \in Intervals[k][1] .. Intervals[k][2] :
                    LET index == Intervals[k][3] + (c - Intervals[k][1])
                    IN /\ index + 1 \in 1..Len(all_glyphs)
                       /\ all_glyphs[index + 1].code_point = c
        /\ Len(all_glyphs) = SizeOfFirst(Len(Intervals))

\* the glyph count of the first n groups
RECURSIVE GlyphCountOfFirst(_)
GlyphCountOfFirst(n) ==
    IF n = 0 THEN 0 ELSE GlyphCountOfFirst(n - 1) + groups[n][2]

\* C8 (group partition law): with --compress the (first_glyph_index,
\* glyph_count) ranges of the groups, in table order, tile the glyph array:
\* the first starts at 0, each next one starts where the previous ends,
\* every count is at least 1 and the counts add up to the glyph count.
C8_GroupPartition ==
    (pc \in {"emit", "done", "AttributeError"} /\ compress) =>
        /\ \A g \in 1..Len(groups) :
              /\ groups[g][2] >= 1
              /\ groups[g][1] = GlyphCountOfFirst(g - 1)
        /\ GlyphCountOfFirst(Len(groups)) = Len(all_glyphs)
        /\ (Len(all_glyphs) > 0 => Len(groups) > 0)

\* C8 witness: a compressed run with at least two groups, one of them of
\* several glyphs.
C8_Witness ==
    /\ pc = "done" /\ compress
    /\ Len(groups) >= 2
    /\ \E g \in 1..Len(groups) : groups[g][2] >= 2

\* the script-group id of a codepoint: the index (from 0) of the first
\* block of the fixed table that contains it, or the catch-all id -1
ScriptId(c) ==
    LET hits == {i \in 1..Len(SCRIPT_GROUP_RANGES) :
                   SCRIPT_GROUP_RANGES[i][1] <= c /\ c <= SCRIPT_GROUP_RANGES[i][2]}
    IN IF hits = {} THEN -1
       ELSE (CHOOSE i \in hits : \A j \in hits : i <= j) - 1

\* the glyphs with indices i and j (from 0) lie in one group
SameGroup(i, j) ==
    \E g \in 1..Len(groups) :
        /\ groups[g][1] <= i /\ i < groups[g][1] + groups[g][2]
        /\ groups[g][1] <= j /\ j < groups[g][1] + groups[g][2]

\* C19 (group boundaries follow script changes exactly): with compression
\* on, two consecutive glyphs are in the same group if and only if their
\* codepoints have the same script-group id.
C19_GroupBoundaries ==
    (pc \in {"emit", "done", "AttributeError"} /\ compress) =>
        \A i \in 0..(Len(all_glyphs) - 2) :
            SameGroup(i, i + 1) <=>
                ScriptId(all_glyphs[i + 1].code_point) =
                ScriptId(all_glyphs[i + 2].code_point)

\* a run with two consecutive glyphs of the catch-all id in one group, right
\* after a group of a block of the table
C19_Witness ==
    /\ pc = "done" /\ compress
    /\ \E i \in 1..(Len(all_glyphs) - 2) :
          /\ ScriptId(all_glyphs[i].code_point) >= 0
          /\ ScriptId(all_glyphs[i + 1].code_point) = -1
          /\ ScriptId(all_glyphs[i + 2].code_point) = -1
          /\ ~SameGroup(i - 1, i)
          /\ SameGroup(i, i + 1)

\* C12 (as claimed): missing coverage is never fatal: whichever requested
\* codepoints no font serves, the run does not stop on an error, so that it
\* emits the complete artifact with the final descriptor.
C12_MissingCoverageNotFatal ==
    pc \notin {"AttributeError", "ZeroDivisionError"}

\* C13 (presence sentinels): in the emitted descriptor the kerning fields
\* are (nullptr, nullptr, nullptr, 0, 0, 0, 0) exactly when no kerning pair
\* survived and otherwise name the three arrays with all four counts >= 1;
\* the ligature fields are (nullptr, 0) exactly when no ligature pair
\* survived; the group fields are (nullptr, 0) exactly when compression is
\* off; the descriptor always has the same 19 fields.
C13_PresenceSentinels ==
    pc = "done" =>
        /\ Len(descriptor) = 19
        /\ (kern_map = <<>>) <=>
              SubSeq(descriptor, 11, 17) =
                  <<"nullptr", "nullptr", "nullptr", 0, 0, 0, 0>>
        /\ kern_map # <<>> =>
              /\ SubSeq(descriptor, 11, 13) =
                     <<"KernLeftClasses", "KernRightClasses", "KernMatrix">>
              /\ \A k \in 14..17 : descriptor[k] >= 1
              /\ descriptor[14] = Len(kern_left_classes)
              /\ descriptor[15] = Len(kern_right_classes)
        /\ (LigaturePairs = <<>>) <=>
              SubSeq(descriptor, 18, 19) = <<"nullptr", 0>>
        /\ LigaturePairs # <<>> =>
              SubSeq(descriptor, 18, 19) = <<"LigaturePairs", Len(LigaturePairs)>>
        /\ (~compress) <=> SubSeq(descriptor, 9, 10) = <<"nullptr", 0>>
        /\ compress => descriptor[9] = "Groups"

\* a descriptor with kerning of two left classes and without ligatures or
\* groups
C13_Witness ==
    /\ pc = "done"
    /\ kern_map # <<>> /\ descriptor[16] = 2
    /\ LigaturePairs = <<>> /\ descriptor[18] = "nullptr"
    /\ ~compress /\ descriptor[9] = "nullptr"

\* the sum of the data_length of the glyphs first+1 .. first+count
RECURSIVE DataLengthSum(_, _)
DataLengthSum(first, count) ==
    IF count = 0 THEN 0
    ELSE DataLengthSum(first, count - 1) + glyph_props[first + count].data_length

\* the data_length bytes at data_offset of buffer, for the k-th glyph record
GlyphBytes(buffer, k) ==
    SubSeq(buffer, glyph_props[k].data_offset + 1,
           glyph_props[k].data_offset + glyph_props[k].data_length)

\* C20 (glyph data addressability): for every emitted glyph record, the
\* dataLength bytes at its dataOffset are that glyph's packed bitmap, in the
\* global bitmap blob without compression and in the uncompressed data of
\* its own group with compression; then the first glyph of every group has
\* dataOffset 0 and the group's uncompressed length is the sum of its
\* members' dataLength.
C20_GlyphDataAddressable ==
    ArraysPrinted =>
        /\ Len(glyph_props) = Len(all_glyphs)
        /\ ~compress =>
              \A k \in 1..Len(all_glyphs) :
                  /\ glyph_props[k].data_length = Len(all_glyphs[k].packed)
                  /\ GlyphBytes(glyph_data, k) = all_glyphs[k].packed
        /\ compress =>
              /\ Len(compressed_groups) = Len(groups)
              /\ \A k \in 1..Len(all_glyphs) :
                    \E g \in 1..Len(compressed_groups) :
                        /\ compressed_groups[g].first_idx < k
                        /\ k <= compressed_groups[g].first_idx
                                + compressed_groups[g].count
              /\ \A g \in 1..Len(compressed_groups) :
                    LET grp == compressed_groups[g] IN
                    /\ grp.count >= 1
                    /\ glyph_props[grp.first_idx + 1].data_offset = 0
                    /\ grp.uncompressed_size =
                           DataLengthSum(grp.first_idx, grp.count)
                    /\ grp.uncompressed_size = Len(grp.group_data)
                    /\ \A k \in (grp.first_idx + 1)..(grp.first_idx + grp.count) :
                          /\ glyph_props[k].data_length = Len(all_glyphs[k].packed)
                          /\ GlyphBytes(grp.group_data, k) = all_glyphs[k].packed

\* a compressed run in which a glyph with bitmap bytes lies inside a later
\* group, at an offset within the group that is not 0 and differs from its
\* offset in the global blob
C20_Witness ==
    /\ pc = "done" /\ compress
    /\ \E k \in 1..Len(glyph_props) :
          /\ glyph_props[k].data_length > 0
          /\ glyph_props[k].data_offset > 0
          /\ glyph_props[k].data_offset < all_glyphs[k].data_offset

\* C21 (compression rewrites only dataOffset): the step that follows the
\* glyph table, taken with or without --compress from the same state, keeps
\* the number and order of the glyph records and, in every record, width,
\* height, advance_x, left, top, data_length and code_point, and leaves the
\* intervals, the glyph list, the bitmap blob, the kerning tables and the
\* ligature table as they were.
C21_OnlyDataOffset ==
    [][ pc = "groups" =>
          /\ Len(glyph_props') = Len(glyph_props)
          /\ \A k \in 1..Len(glyph_props) :
                /\ DOMAIN glyph_props'[k] = DOMAIN glyph_props[k]
                /\ glyph_props'[k].width = glyph_props[k].width
                /\ glyph_props'[k].height = glyph_props[k].height
                /\ glyph_props'[k].advance_x = glyph_props[k].advance_x
                /\ glyph_props'[k].left = glyph_props[k].left
                /\ glyph_props'[k].top = glyph_props[k].top
                /\ glyph_props'[k].data_length = glyph_props[k].data_length
                /\ glyph_props'[k].code_point = glyph_props[k].code_point
          /\ UNCHANGED <<intervals, all_glyphs, glyph_data, kvars,
                         ligature_pairs, LigaturePairs>> ]_vars

\* a compressed run past the group stage, with kerning classes and ligature
\* pairs, in which the rewrite moved the offset of a glyph whose advance,
\* left bearing and top bearing differ from one another
C21_Witness ==
    /\ pc = "emit" /\ compress
    /\ Len(compressed_groups) >= 2
    /\ \E k \in 1..Len(glyph_props) :
          /\ glyph_props[k].data_offset # all_glyphs[k].data_offset
          /\ glyph_props[k].advance_x = all_glyphs[k].advance_x
          /\ glyph_props[k].left # glyph_props[k].top
          /\ glyph_props[k].advance_x # glyph_props[k].top
          /\ glyph_props[k].left < 0
    /\ Len(kern_left_classes) > 0
    /\ Len(LigaturePairs) > 0

----------------------------------------------------------------------------
(* Properties of the quantizer (under SpecQuant). *)

\* ceil(n / d) for n >= 0, d > 0
CeilDiv(n, d) == (n + d - 1) \div d

\* C7 (quantization length law): for every raster of width w and height h,
\* also with w * h = 0, the quantizer reaches bytes(pixels) with every
\* value in 0..255 and the packed buffer has ceil(w*h/8) bytes in 1-bit
\* mode and ceil(w*h/4) bytes in 2-bit mode.
C7_QuantLength ==
    /\ pc # "ValueError"
    /\ pc \in {"bytes", "packed"} =>
          /\ Len(pixels) = CeilDiv(bitmap.width * bitmap.rows,
                                   IF is2Bit THEN 4 ELSE 8)
          /\ \A k \in 1..Len(pixels) : pixels[k] \in 0..255
    /\ pc = "packed" => packed = pixels

\* C7 witness: a 1-bit buffer of two bytes whose second byte is partly
\* filled with ink.
C7_Witness ==
    /\ pc = "packed" /\ ~is2Bit
    /\ (bitmap.width * bitmap.rows) % 8 # 0
    /\ Len(packed) = 2
    /\ packed[2] > 0

----------------------------------------------------------------------------
(* Properties of the kerning class tables (under SpecKern). *)

\* the extracted adjustment of the pair (l, r), 0 where no pair exists
PairValue(l, r) == IF <<l, r>> \in DOMAIN kern_map THEN kern_map[<<l, r>>] ELSE 0

LeftCps == {k[1] : k \in DOMAIN kern_map}

RightCps == {k[2] : k \in DOMAIN kern_map}

SameRow(l1, l2) == \A r \in RightCps : PairValue(l1, r) = PairValue(l2, r)

SameCol(r1, r2) == \A l \in LeftCps : PairValue(l, r1) = PairValue(l, r2)

\* C1 (kerning matrix soundness): once the matrix is built, every pair
\* (l, r) of the pair map reads its own adjustment back from the cell
\* (leftClass(l) - 1) * rightClassCount + (rightClass(r) - 1).
C1_MatrixSound ==
    pc \in {"class entries", "kerning done"} =>
        \A k \in DOMAIN kern_map :
            LET cell == (left_class_map[k[1]] - 1) * kern_right_class_count
                        + (right_class_map[k[2]] - 1)
            IN /\ cell + 1 \in 1..Len(kern_matrix)
               /\ kern_matrix[cell + 1] = kern_map[k]

\* C1 witness: a built matrix with more left classes than right classes
\* and at least two of each, in which two pairs share one cell.
C1_Witness ==
    /\ pc = "kerning done"
    /\ kern_left_class_count > kern_right_class_count
    /\ kern_right_class_count >= 2
    /\ \E k1 \in DOMAIN kern_map : \E k2 \in DOMAIN kern_map :
          /\ k1 # k2
          /\ left_class_map[k1[1]] = left_class_map[k2[1]]
          /\ right_class_map[k1[2]] = right_class_map[k2[2]]

\* C2 (class partition): once the classes are counted, two left codepoints
\* have the same left class exactly when their adjustments against every
\* right codepoint agree, two right codepoints have the same right class
\* exactly when their adjustments against every left codepoint agree, and
\* each class count is the number of distinct profiles.
C2_ClassPartition ==
    pc \in {"matrix", "class entries", "kerning done"} /\ kern_map # <<>> =>
        /\ DOMAIN left_class_map = LeftCps
        /\ DOMAIN right_class_map = RightCps
        /\ \A l1 \in LeftCps : \A l2 \in LeftCps :
              left_class_map[l1] = left_class_map[l2] <=> SameRow(l1, l2)
        /\ \A r1 \in RightCps : \A r2 \in RightCps :
              right_class_map[r1] = right_class_map[r2] <=> SameCol(r1, r2)
        /\ kern_left_class_count =
              Cardinality({{l2 \in LeftCps : SameRow(l1, l2)} : l1 \in LeftCps})
        /\ kern_right_class_count =
              Cardinality({{r2 \in RightCps : SameCol(r1, r2)} : r1 \in RightCps})

\* C2 witness: three left codepoints in two classes: two rows agree and a
\* third differs from them in a single adjustment.
C2_Witness ==
    /\ pc = "kerning done"
    /\ \E l1 \in LeftCps : \E l2 \in LeftCps : \E l3 \in LeftCps :
          /\ l1 # l2
          /\ left_class_map[l1] = left_class_map[l2]
          /\ left_class_map[l3] # left_class_map[l1]
          /\ Cardinality({r \in RightCps :
                          PairValue(l1, r) # PairValue(l3, r)}) = 1
          /\ Cardinality(RightCps) >= 2

\* the smallest codepoint that class_map gives the class id
MinCpOfClass(class_map, id) ==
    CHOOSE c \in DOMAIN class_map :
        /\ class_map[c] = id
        /\ \A d \in DOMAIN class_map : class_map[d] = id => c <= d

\* the class ids of class_map are 1..count in the order in which ascending
\* codepoints first show them
FirstSeenIds(class_map, count) ==
    /\ {class_map[c] : c \in DOMAIN class_map} = 1..count
    /\ \A c \in DOMAIN class_map :
          (\A d \in DOMAIN class_map : c <= d) => class_map[c] = 1
    /\ \A i \in 1..count : \A j \in 1..count :
          i < j => MinCpOfClass(class_map, i) < MinCpOfClass(class_map, j)

\* entries holds one (codepoint, classId) of class_map per codepoint of cps,
\* ascending by codepoint
SortedEntries(entries, class_map, cps) ==
    /\ Len(entries) = Cardinality(cps)
    /\ {entries[k][1] : k \in 1..Len(entries)} = cps
    /\ \A k \in 1..Len(entries) : entries[k][2] = class_map[entries[k][1]]
    /\ \A k \in 1..(Len(entries) - 1) : entries[k][1] < entries[k + 1][1]

\* C28 (class id order): in each class table the ids are exactly
\* 1..classCount, the smallest codepoint has class 1, a smaller class id
\* has the smaller first codepoint, and the table holds one entry per
\* distinct left (right) codepoint of the pair map, ascending by codepoint.
C28_FirstSeenClassIds ==
    pc = "kerning done" /\ kern_map # <<>> =>
        /\ FirstSeenIds(left_class_map, kern_left_class_count)
        /\ FirstSeenIds(right_class_map, kern_right_class_count)
        /\ SortedEntries(kern_left_classes, left_class_map, LeftCps)
        /\ SortedEntries(kern_right_classes, right_class_map, RightCps)

\* C28 witness: three left codepoints of which the first and the last
\* share class 1 and the middle one has class 2.
C28_Witness ==
    /\ pc = "kerning done"
    /\ Len(kern_left_classes) = 3
    /\ kern_left_classes[1][2] = 1
    /\ kern_left_classes[2][2] = 2
    /\ kern_left_classes[3][2] = 1

\* the cell of the class matrix that the pair (l, r) reads
MatrixLookup(l, r) ==
    kern_matrix[(left_class_map[l] - 1) * kern_right_class_count
                + (right_class_map[r] - 1) + 1]

\* C29 (no kerning invented): for every left codepoint l and right
\* codepoint r of the class tables, the matrix cell of their classes holds
\* the extracted adjustment of (l, r), which is 0 when the pair was not
\* extracted, whatever the order in which the pairs were written.
C29_MatrixExact ==
    pc \in {"class entries", "kerning done"} /\ kern_map # <<>> =>
        /\ Len(kern_matrix) = kern_left_class_count * kern_right_class_count
        /\ \A l \in DOMAIN left_class_map : \A r \in DOMAIN right_class_map :
              MatrixLookup(l, r) = PairValue(l, r)

\* C29 witness: a pair that was not extracted, both of whose codepoints
\* kern with other codepoints, and whose cell reads 0 in a matrix with
\* more than one row and more than one column.
C29_Witness ==
    /\ pc = "kerning done"
    /\ kern_left_class_count >= 2
    /\ kern_right_class_count >= 2
    /\ \E l \in LeftCps : \E r \in RightCps :
          /\ <<l, r>> \notin DOMAIN kern_map
          /\ MatrixLookup(l, r) = 0

----------------------------------------------------------------------------
(* Properties of the ligature pair table (under SpecLig). *)

\* the retained 3-codepoint rules whose 2-codepoint prefix the same face
\* retains, each with the output lig2 of the prefix and its own output lig3
RetainedChains ==
    UNION { LET filtered == filtered_log[n][2]
            IN { [seq |-> filtered[k][1],
                  lig2 |-> DictGet(filtered, SubSeq(filtered[k][1], 1, 2)),
                  lig3 |-> filtered[k][2]] :
                 k \in {j \in 1..Len(filtered) :
                          /\ Len(filtered[j][1]) = 3
                          /\ DictHas(filtered, SubSeq(filtered[j][1], 1, 2))} }
            : n \in 1..Len(filtered_log) }

\* the emitted table has the entry (a, b) -> lig
InTable(a, b, lig) ==
    \E k \in 1..Len(LigaturePairs) : LigaturePairs[k] = <<Packed(a, b), lig>>

\* the pair (a, b) -> lig was extracted from some face
Extracted(a, b, lig) ==
    \E k \in 1..Len(ligature_pairs) : ligature_pairs[k] = <<Packed(a, b), lig>>

\* the first pair extracted with a packed key
FirstExtracted(key) ==
    ligature_pairs[CHOOSE k \in 1..Len(ligature_pairs) :
                      /\ ligature_pairs[k][1] = key
                      /\ \A j \in 1..(k - 1) : ligature_pairs[j][1] # key]

\* the emitted table has exactly one entry with the key: the first pair
\* extracted with it
FirstWins(key) ==
    /\ Cardinality({k \in 1..Len(LigaturePairs) :
                      LigaturePairs[k][1] = key}) = 1
    /\ \E k \in 1..Len(LigaturePairs) : LigaturePairs[k] = FirstExtracted(key)

\* every emitted entry is keyed by one packed pair of covered codepoints
KeyedByPairs ==
    \A k \in 1..Len(LigaturePairs) :
        \E x, y \in {all_codepoints[j] : j \in 1..Len(all_codepoints)} :
            LigaturePairs[k][1] = Packed(x, y)

\* C9 as stated: for a retained rule (a,b,c) -> lig3 whose prefix rule
\* (a,b) -> lig2 the same face retains, the emitted table contains both
\* (a,b) -> lig2 and (lig2,c) -> lig3, and every entry is keyed by exactly
\* two codepoints.  It fails when an earlier pair holds the key of (lig2,c).
C9_ChainBothPairs ==
    pc = "ligatures done" =>
        /\ \A ch \in RetainedChains :
              /\ InTable(ch.seq[1], ch.seq[2], ch.lig2)
              /\ InTable(ch.lig2, ch.seq[3], ch.lig3)
        /\ KeyedByPairs

\* C9, amended: for a retained rule (a,b,c) -> lig3 whose prefix rule
\* (a,b) -> lig2 the same face retains, both pairs (a,b) -> lig2 and
\* (lig2,c) -> lig3 are extracted, and for each of their packed keys the
\* emitted table has exactly one entry, the first pair extracted with that
\* key; with all codepoints below 0x10000 the entry of (a,b) is
\* (a,b) -> lig2.  Every entry is keyed by exactly two codepoints.
C9_ChainFirstWins ==
    pc = "ligatures done" =>
        /\ \A ch \in RetainedChains :
              /\ Extracted(ch.seq[1], ch.seq[2], ch.lig2)
              /\ Extracted(ch.lig2, ch.seq[3], ch.lig3)
              /\ FirstWins(Packed(ch.seq[1], ch.seq[2]))
              /\ FirstWins(Packed(ch.lig2, ch.seq[3]))
              /\ (\A k \in 1..Len(all_codepoints) : all_codepoints[k] < 2^16)
                    => InTable(ch.seq[1], ch.seq[2], ch.lig2)
        /\ KeyedByPairs

\* a face retained (f,f) -> ff, (f,f,i) -> ffi and a rule keyed (ff,i) too:
\* the table has both pairs of the chain and the dedupe dropped a pair
C9_Witness ==
    /\ pc = "ligatures done"
    /\ \E ch \in RetainedChains :
          /\ InTable(ch.seq[1], ch.seq[2], ch.lig2)
          /\ InTable(ch.lig2, ch.seq[3], ch.lig3)
    /\ Len(LigaturePairs) < Len(ligature_pairs)

\* C10: the emitted LigaturePairs table is strictly ascending by packed key
\* (so no key occurs twice), whatever rules were read from the faces.
C10_PairsStrictlyAscending ==
    \A k \in 1..(Len(LigaturePairs) - 1) :
        TupleLess(LigaturePairs[k][1], LigaturePairs[k + 1][1])

\* two faces contributed pairs, the extraction order was not ascending and
\* the table has at least two entries
C10_Witness ==
    /\ pc = "ligatures done"
    /\ Len(LigaturePairs) >= 2
    /\ Cardinality({filtered_log[n][1] :
                      n \in {m \in 1..Len(filtered_log) :
                               filtered_log[m][2] # <<>>}}) = 2
    /\ \E k \in 1..(Len(ligature_pairs) - 1) :
          TupleLess(ligature_pairs[k + 1][1], ligature_pairs[k][1])

\* C24 (the first discovered rule wins): when the record discovered first
\* of all is retained - its output resolved, every input codepoint served
\* by its face - the emitted table holds, under the key that record yields
\* (the packed pair of a 2-codepoint rule, the chained pair of a longer rule
\* whose prefix is retained), the output of that record.  No rule precedes
\* it in discovery order, so first-occurrence-wins requires this.  It fails
\* when a later record of the same face has the same input sequence, and
\* when a later 2-codepoint rule has the key of its chained pair.
C24_FirstOccurrenceWins ==
    (pc = "ligatures done" /\ rules_read # <<>>) =>
        LET f == rules_read[1][1]
            got == ReadLigature(<<>>, rules_read[1][2])
            kept == Filtered(<<>>, got, lig_face_idx_cps(all_codepoints)[f],
                        {all_codepoints[k] : k \in 1..Len(all_codepoints)})
            filtered == DictGet(filtered_log, f)
        IN kept # <<>> =>
              LET seq == kept[1][1]
                  lig == kept[1][2]
                  prefix == SubSeq(seq, 1, Len(seq) - 1)
              IN /\ Len(seq) = 2 => InTable(seq[1], seq[2], lig)
                 /\ (Len(seq) >= 3 /\ DictHas(filtered, prefix)) =>
                       InTable(DictGet(filtered, prefix), seq[Len(seq)], lig)

\* the retained rules of 3 or more codepoints, per face, whose prefix of all
\* codepoints but the last is a retained rule of the same face; at is the
\* place of the rule among the face's retained rules, which keep the order
\* of their first discovery
ChainableRules(filtered) ==
    {j \in 1..Len(filtered) :
        /\ Len(filtered[j][1]) >= 3
        /\ DictHas(filtered,
                   SubSeq(filtered[j][1], 1, Len(filtered[j][1]) - 1))}

\* the place of a retained rule's prefix among the face's retained rules
PrefixPlace(filtered, j) ==
    CHOOSE k \in 1..Len(filtered) :
        filtered[k][1] = SubSeq(filtered[j][1], 1, Len(filtered[j][1]) - 1)

\* the number of pairs lines 593-617 return for a face's retained rules
RECURSIVE PairCount(_)
PairCount(log) ==
    IF log = <<>> THEN 0
    ELSE Cardinality({j \in 1..Len(Head(log)[2]) :
                         Len(Head(log)[2][j][1]) = 2})
         + Cardinality(ChainableRules(Head(log)[2]))
         + PairCount(Tail(log))

\* C27 as stated: a rule of 3 or more codepoints is chained only when its
\* prefix rule was discovered before it; a rule discovered ahead of its
\* prefix rule yields no chained pair.
C27_ChainedOnlyAfterPrefix ==
    \A n \in 1..Len(filtered_log) :
        \A j \in ChainableRules(filtered_log[n][2]) :
            Extracted(DictGet(filtered_log[n][2],
                              SubSeq(filtered_log[n][2][j][1], 1,
                                     Len(filtered_log[n][2][j][1]) - 1)),
                      Last(filtered_log[n][2][j][1]),
                      filtered_log[n][2][j][2])
                => PrefixPlace(filtered_log[n][2], j) < j

\* C27, amended: chaining does not depend on discovery order.  A retained
\* rule of 3 or more codepoints yields its chained pair (intermediate, last)
\* -> lig exactly when its prefix is a retained rule of the same face,
\* discovered before or after it: every such rule's pair is extracted, and
\* the faces yield no pair beyond the 2-codepoint rules and these.
C27_ChainedWhenPrefixRetained ==
    /\ \A n \in 1..Len(filtered_log) :
          \A j \in ChainableRules(filtered_log[n][2]) :
              Extracted(DictGet(filtered_log[n][2],
                                SubSeq(filtered_log[n][2][j][1], 1,
                                       Len(filtered_log[n][2][j][1]) - 1)),
                        Last(filtered_log[n][2][j][1]),
                        filtered_log[n][2][j][2])
    /\ Len(ligature_pairs) = PairCount(filtered_log)

\* (f,f,i) -> ffi was discovered ahead of (f,f) -> ff and the table holds
\* its chained pair
C27_Witness ==
    /\ pc = "ligatures done"
    /\ \E n \in 1..Len(filtered_log) :
          \E j \in ChainableRules(filtered_log[n][2]) :
              /\ j < PrefixPlace(filtered_log[n][2], j)
              /\ InTable(DictGet(filtered_log[n][2],
                                 SubSeq(filtered_log[n][2][j][1], 1,
                                        Len(filtered_log[n][2][j][1]) - 1)),
                         Last(filtered_log[n][2][j][1]),
                         filtered_log[n][2][j][2])

----------------------------------------------------------------------------
(* Properties of the packed pixels (under SpecQuantLevels). *)

\* the 4-bit intensity of the pixel at linear position p (from 0)
Intensity(p) == ShiftRight(bitmap.buffer[p + 1], 4)

\* the 2-bit level of a 4-bit intensity
LevelOf(i) == IF i >= 12 THEN 3 ELSE IF i >= 8 THEN 2 ELSE IF i >= 4 THEN 1 ELSE 0

\* the bits bits-wide field of the packed buffer that holds pixel p,
\* MSB-first and continuous across rows
PackedField(p, bits) ==
    LET perByte == 8 \div bits
    IN BitAnd(ShiftRight(packed[(p \div perByte) + 1],
                         (perByte - 1 - (p % perByte)) * bits),
              2^bits - 1)

\* the unused low bits of the last byte are 0
TailClear(bits) ==
    LET perByte == 8 \div bits
        rest == (bitmap.width * bitmap.rows) % perByte
    IN rest # 0 => packed[Len(packed)] % 2^((perByte - rest) * bits) = 0

\* C17 (2-bit quantization and packing): the pixel at linear position
\* p = y*width + x is stored in byte p div 4 at bits (3 - p mod 4)*2 .. +1,
\* with level 3 if its 4-bit intensity is >= 12, 2 if >= 8, 1 if >= 4, else
\* 0; the unused low bits of the final byte are 0.
C17_TwoBitPacking ==
    (pc = "packed" /\ is2Bit) =>
        /\ Len(packed) = CeilDiv(bitmap.width * bitmap.rows, 4)
        /\ \A p \in 0..(bitmap.width * bitmap.rows - 1) :
              PackedField(p, 2) = LevelOf(Intensity(p))
        /\ TailClear(2)

\* a raster of odd width with more than one row and a partly filled second
\* byte, holding a pixel of level 1 or 2 next to one of another level
C17_Witness ==
    /\ pc = "packed" /\ is2Bit
    /\ bitmap.width % 2 = 1 /\ bitmap.rows > 1
    /\ Len(packed) = 2 /\ (bitmap.width * bitmap.rows) % 4 # 0
    /\ \E p \in 4..(bitmap.width * bitmap.rows - 2) :
          /\ LevelOf(Intensity(p)) \in {1, 2}
          /\ LevelOf(Intensity(p + 1)) # LevelOf(Intensity(p))
          /\ PackedField(p, 2) = LevelOf(Intensity(p))

\* C18 (1-bit quantization and packing): the pixel at linear position
\* p = y*width + x is stored in byte p div 8 at bit 7 - (p mod 8) and is 1
\* exactly when its own 4-bit intensity is >= 2, whatever the pixel that
\* shares its byte of pixels4g; the unused low bits of the final byte are 0.
C18_OneBitPacking ==
    (pc = "packed" /\ ~is2Bit) =>
        /\ Len(packed) = CeilDiv(bitmap.width * bitmap.rows, 8)
        /\ \A p \in 0..(bitmap.width * bitmap.rows - 1) :
              PackedField(p, 1) = IF Intensity(p) >= 2 THEN 1 ELSE 0
        /\ TailClear(1)

\* two pixels that share a byte of pixels4g, one of intensity 1 and one of
\* intensity 2 or more, in a raster of odd width with a second packed byte
C18_Witness ==
    /\ pc = "packed" /\ ~is2Bit
    /\ bitmap.width % 2 = 1 /\ bitmap.rows > 1
    /\ Len(packed) = 2
    /\ \E p \in 0..(bitmap.width * bitmap.rows - 2) :
          /\ (p % bitmap.width) % 2 = 0
          /\ (p % bitmap.width) + 1 < bitmap.width
          /\ Intensity(p) = 1 /\ Intensity(p + 1) >= 2
          /\ PackedField(p, 1) = 0 /\ PackedField(p + 1, 1) = 1
----------------------------------------------------------------------------
(* Properties of the extracted kerning pairs (under SpecKernExtract). *)

\* the codepoint pair of a glyph name pair, lines 401-402
CpKey(k) == <<glyph_to_cp[k[1]], glyph_to_cp[k[2]]>>

\* floor(du * ppem / unitsPerEm) in exact arithmetic, with
\* ppem = size * 150 / 72
ExactPixels(du) ==
    (du * size * 150) \div (72 * tt_fonts[kern_face].unitsPerEm)

\* C14 (as claimed): every value of the extracted pair map equals
\* clamp(floor(designUnits * ppem / unitsPerEm), -128, 127) of the
\* accumulated design units of its glyph pair, is non-zero and lies in
\* -128..127, and a pair whose floored value is 0 is absent from the map.
C14_KerningScaling ==
    pc = "update" =>
        /\ \A k \in DOMAIN raw_kern :
              IF ExactPixels(raw_kern[k]) = 0
              THEN CpKey(k) \notin DOMAIN kern_result
              ELSE /\ CpKey(k) \in DOMAIN kern_result
                   /\ kern_result[CpKey(k)] = clamp(ExactPixels(raw_kern[k]))
        /\ \A ck \in DOMAIN kern_result :
              /\ kern_result[ck] # 0
              /\ kern_result[ck] \in -128..127
              /\ \E k \in DOMAIN raw_kern : CpKey(k) = ck
\* the pair map of one face when its codepoints and its lookup indices are
\* visited in ascending order
AscendingResult(face_idx) ==
    extract_kerning_fonttools(
        tt_fonts[face_idx],
        SortedSeq(face_idx_cps(all_codepoints)[face_idx]),
        SortedSeq(kern_lookup_indices(tt_fonts[face_idx].GPOS)),
        size)

\* kern_map when every set is iterated in ascending order
AscendingKernMap ==
    LET faces == DOMAIN face_idx_cps(all_codepoints)
    IN [ck \in UNION {DOMAIN AscendingResult(fi) : fi \in faces} |->
           AscendingResult(CHOOSE fi \in faces :
                              ck \in DOMAIN AscendingResult(fi))[ck]]

\* C11 (as claimed): the extracted kerning does not depend on the order in
\* which the codepoint sets, the lookup-index sets and the glyph-name maps
\* are iterated: for the same fonts and size, every order leaves the pair
\* map that the ascending order leaves, also when two covered codepoints
\* share a glyph name in a font's cmap.
C11_OrderIndependent ==
    pc = "kerning" => kern_map = AscendingKernMap
\* C23 (union of the per-font pair maps): a pair key that an earlier
\* extraction pass put into kern_map keeps its value through every later
\* pass, and every pair of a pass enters kern_map with the value of that
\* pass, so that the final value of a key does not depend on the order in
\* which the fonts are processed.
C23_UnionKeepsEarlier ==
    [][/\ \A k \in DOMAIN kern_map :
             k \in DOMAIN kern_map' /\ kern_map'[k] = kern_map[k]
       /\ pc = "update" =>
             \A k \in DOMAIN kern_result :
                 k \in DOMAIN kern_map' /\ kern_map'[k] = kern_result[k]]_vars

\* C23 witness: both fonts of a stack have contributed pairs, the font of
\* lower priority first.
C23_Witness ==
    /\ pc = "kerning"
    /\ kern_face = 1
    /\ \E k \in DOMAIN kern_map : face_idx_from(1, k[1]) = 1
    /\ \E k \in DOMAIN kern_map : face_idx_from(1, k[1]) = 2
----------------------------------------------------------------------------
(* Properties of the ligature pair table (under SpecLigWide). *)

\* the pair a chainable rule of a face yields: the intermediate codepoint,
\* the rule's last codepoint and the rule's output
ChainedPairOf(filtered, j) ==
    <<DictGet(filtered, SubSeq(filtered[j][1], 1, Len(filtered[j][1]) - 1)),
      Last(filtered[j][1]), filtered[j][2]>>

\* C26 (one-unit lookahead): for every retained rule of N >= 3 codepoints
\* whose chained pair is in the emitted table, the pair's first key
\* component is the output of an emitted pair for the rule's prefix of N - 1
\* codepoints: the direct pair of the prefix when N = 3, the chained pair of
\* the prefix rule when N >= 4.  It fails for N = 4 when the 3-codepoint
\* prefix rule is retained and its own 2-codepoint prefix is not.
C26_OneUnitLookahead ==
    pc = "ligatures done" =>
        \A n \in 1..Len(filtered_log) :
            LET filtered == filtered_log[n][2]
            IN \A j \in ChainableRules(filtered) :
                  LET pair == ChainedPairOf(filtered, j)
                      p == PrefixPlace(filtered, j)
                  IN InTable(pair[1], pair[2], pair[3]) =>
                        IF Len(filtered[p][1]) = 2
                        THEN InTable(filtered[p][1][1], filtered[p][1][2],
                                     pair[1])
                        ELSE /\ p \in ChainableRules(filtered)
                             /\ InTable(ChainedPairOf(filtered, p)[1],
                                        ChainedPairOf(filtered, p)[2],
                                        pair[1])

\* the input pairs of the extracted pairs: the two codepoints of every
\* retained 2-codepoint rule, and the intermediate and last codepoint of
\* every chainable rule
InputPairs ==
    UNION { { <<filtered_log[n][2][j][1][1], filtered_log[n][2][j][1][2]>> :
                j \in {i \in 1..Len(filtered_log[n][2]) :
                         Len(filtered_log[n][2][i][1]) = 2} }
            \cup
            { <<ChainedPairOf(filtered_log[n][2], j)[1],
                ChainedPairOf(filtered_log[n][2], j)[2]>> :
                j \in ChainableRules(filtered_log[n][2]) }
            : n \in 1..Len(filtered_log) }

\* C30 (packed keys): two extracted pairs have equal packed keys only if
\* they have the same first and the same second input codepoint, and every
\* packed key fits in 32 bits, also with covered codepoints above U+FFFF.
\* It fails: (f, U+10069) and (g, i) share the key 0x00670069, and the key
\* of (U+10069, f) is 0x100690066.
C30_PackedKeyUnique ==
    /\ \A p, q \in InputPairs :
          Packed(p[1], p[2]) = Packed(q[1], q[2]) => p = q
    /\ \A k \in 1..Len(ligature_pairs) : ligature_pairs[k][1][1] < 2^16

\* all_codepoints_set, line 488
all_codepoints_set == {all_codepoints[k] : k \in 1..Len(all_codepoints)}

\* C25 (emitted pairs name covered codepoints): in every entry of the
\* emitted table the two components of the key, packed >> 16 and
\* packed & 0xFFFF as line 808 reads them, and the output codepoint are
\* codepoints with a glyph record.  It fails for the pair (f, U+10069),
\* emitted under the key of (g, i) by a font without 'g'.
C25_PairsNameCoveredCodepoints ==
    pc = "ligatures done" =>
        \A k \in 1..Len(LigaturePairs) :
            /\ LigaturePairs[k][1][1] \in all_codepoints_set
            /\ LigaturePairs[k][1][2] \in all_codepoints_set
            /\ LigaturePairs[k][2] \in all_codepoints_set
----------------------------------------------------------------------------
(* Properties of the kerning and ligature tables (under SpecFeatures). *)

\* a codepoint of the combining-marks block
IsCombiningMark(cp) == COMBINING_MARKS_START <= cp /\ cp <= COMBINING_MARKS_END

\* C22 (combining marks take no part): no codepoint of U+0300..U+036F is an
\* entry of the left-class table or of the right-class table, a key
\* codepoint of kern_map, or an input codepoint of a ligature rule retained
\* for a font, whatever the fonts' kern, GPOS and GSUB tables hold.
C22_NoCombiningMarks ==
    /\ \A k \in 1..Len(kern_left_classes) :
          ~IsCombiningMark(kern_left_classes[k][1])
    /\ \A k \in 1..Len(kern_right_classes) :
          ~IsCombiningMark(kern_right_classes[k][1])
    /\ \A key \in DOMAIN kern_map :
          ~IsCombiningMark(key[1]) /\ ~IsCombiningMark(key[2])
    /\ \A n \in 1..Len(filtered_log) :
          \A j \in 1..Len(filtered_log[n][2]) :
              \A i \in 1..Len(filtered_log[n][2][j][1]) :
                  ~IsCombiningMark(filtered_log[n][2][j][1][i])

\* the combining acute has a glyph record; a font with the kern pair
\* (A, acutecomb) gave the class tables their entries; the GSUB walk met
\* the rule (A, U+0301) -> A-grave and a rule without a mark, and the
\* table holds the pair of the latter
C22_Witness ==
    /\ pc = "ligatures done"
    /\ \E k \in 1..Len(all_codepoints) : IsCombiningMark(all_codepoints[k])
    /\ \E f \in 1..NumFonts :
          /\ tt_fonts[f].kernTables = OneKernTable
          /\ f \in DOMAIN face_idx_cps(all_codepoints)
          /\ \H41 \in face_idx_cps(all_codepoints)[f]
    /\ Len(kern_left_classes) > 0
    /\ Len(kern_right_classes) > 0
    /\ \E k \in 1..Len(rules_read) :
          /\ rules_read[k][2].lig # NoCp
          /\ \E i \in 1..Len(rules_read[k][2].seq) :
                IsCombiningMark(rules_read[k][2].seq[i])
    /\ Len(LigaturePairs) > 0

====
